---- MODULE Spec2Model ----
(***************************************************************************)
(* Persistence layer of the journaling tools of silly-side-quests:         *)
(* commit_your_day.py (atomic JSON writer, backup rotation, loader with    *)
(* fallback), pebbles.py (atomic save, strict loader), capsule.py and      *)
(* memory_jar.py (plain save, lenient loader).                             *)
(*                                                                         *)
(* A behaviour is the history of ONE tool's data directory: a sequence of  *)
(* command invocations, each of which runs step by step over the file      *)
(* system and may be killed between any two file-system steps or hit an    *)
(* OSError at any writing step.                                            *)
(*                                                                         *)
(* Text files are sequences of chunks.  json.dumps produces a head chunk,  *)
(* one chunk per list item and a tail chunk, so that a prefix of a         *)
(* serialization is a truncated file which json.loads rejects.             *)
(***************************************************************************)
EXTENDS Integers, Sequences, FiniteSets, TLC

VARIABLES
    tool,       \* which program owns the directory: "commit_your_day" | "pebbles" |
                \* "capsule" | "memory_jar"
    files,      \* the directory: file index -> [ex, rd, data]
    pc,         \* position of the running invocation
    cmd,        \* command of the running invocation
    cand,       \* _load_store: index into candidates
    gen,        \* _rotate_backups: loop variable
    store,      \* the in-memory store of the invocation
    arg,        \* the input of the command: arguments, text or answer
    newrec,     \* the record built by the add command
    payload,    \* serialized text handed to the atomic writer
    tmp,        \* index of the temp file made by mkstemp, 0 when none
    wctx,       \* caller of the atomic writer: "save" | "promote"
    outcome,    \* how the invocation ended
    now,        \* wall clock, one tick per invocation
    uuids,      \* number of uuid4 values drawn so far
    budget,     \* invocations left in this run
    faults,     \* kills and failing system calls the environment may still inflict
    pre,        \* history: the directory when the invocation started
    wpre,       \* history: the primary file when the current save started
    ret,        \* history: what the invocation's load returned
    hist,       \* history: payloads written by the successful saves so far
    clean,      \* history: run started from no files, nothing failed or was killed
    lastSave,   \* history: store persisted by the latest completed save
    wres,       \* history: how the latest call of the atomic writer ended
    at,         \* history: the position at which the invocation ended
    cp,         \* shutil.copy2 in progress: the source as opened, the file
                \* written to, the offset reached
    other,      \* a second invocation running at the same time, while the
                \* first one is the one taking steps
    turn,       \* which of the two invocations is the one taking steps
    out,        \* what a command that only computes has worked out and shown
    pet,        \* buddy: the configuration, the terminal, the clock and the
                \* locals of main and run_animation
    toy         \* toybox, pocket_poet: the arguments, the generator, what the
                \* run printed and what the run before it printed

vars == << tool, files, pc, cmd, arg, cand, gen, store, newrec, payload, tmp, wctx,
           outcome, now, uuids, budget, faults, pre, wpre, ret, hist, clean,
           lastSave, wres, at, cp, other, turn, out, pet, toy >>

\* the variables of the programs that keep no store
apart == << out, pet, toy >>

\* the variables of the programs that keep a store
vars_store == << tool, files, pc, cmd, arg, cand, gen, store, newrec, payload, tmp,
                 wctx, outcome, now, uuids, budget, faults, pre, wpre, ret, hist,
                 clean, lastSave, wres, at, cp, other, turn >>

-----------------------------------------------------------------------------
(* Program constants *)

MAX_BACKUPS == 3
SCHEMA_VERSION == "1.0"
MOOD_MIN == -2
MOOD_MAX == 2
MOOD_DEFAULT == 0
ENERGY_MIN == 1
ENERGY_MAX == 5
ENERGY_DEFAULT == 3

(* Bounds of the model *)

MaxCmds == 5        \* invocations in a run on a reliable machine, from an empty directory
MaxCmdsHostile == 2 \* invocations in a run in which the environment interferes
MaxFaults == 1      \* kills and failing system calls in such a run
MaxTmp == 2         \* temp-file names available to mkstemp

-----------------------------------------------------------------------------
(* JSON values, as json.loads returns them *)

JAbsent == [t |-> "absent"]                 \* key not present in an object
JNull == [t |-> "null"]
JStr(s) == [t |-> "str", s |-> s]
JInt(n) == [t |-> "int", n |-> n]
JBool(b) == [t |-> "bool", b |-> b]
JNaN == [t |-> "float", k |-> "nan", n |-> 0]
JInf == [t |-> "float", k |-> "inf", n |-> 0]
JFloat(n) == [t |-> "float", k |-> "fin", n |-> n]   \* a finite float whose integer part is n
JList(items) == [t |-> "list", items |-> items]
JObj(fields) == [t |-> "obj", f |-> fields]          \* fields: record, JAbsent for a missing key

\* dict.get(key, default)
Get(obj, key, default) == IF obj.f[key].t = "absent" THEN default ELSE obj.f[key]

\* isinstance(v, (int, float)): bool is a subclass of int
IsNumber(v) == v.t \in {"int", "float", "bool"}

\* int(v) raises ValueError on NaN and OverflowError on infinity
IntRaises(v) ==
    IF v.t = "float" /\ v.k = "nan" THEN "ValueError"
    ELSE IF v.t = "float" /\ v.k = "inf" THEN "OverflowError"
    ELSE "none"

PyInt(v) ==
    IF v.t = "bool" THEN (IF v.b THEN 1 ELSE 0) ELSE v.n

\* str(v)
PyStr(v) ==
    CASE v.t = "str" -> v.s
      [] v.t = "int" -> ToString(v.n)
      [] v.t = "bool" -> (IF v.b THEN "True" ELSE "False")
      [] v.t = "null" -> "None"
      [] v.t = "float" -> (IF v.k = "fin" THEN "<float>" ELSE v.k)
      [] v.t = "list" -> "<list>"
      [] OTHER -> "<dict>"

MapSeq(Op(_), s) == [i \in 1..Len(s) |-> Op(s[i])]

RECURSIVE SelectObjs(_)
SelectObjs(s) ==
    IF s = <<>> THEN <<>>
    ELSE IF Head(s).t = "obj" THEN <<Head(s)>> \o SelectObjs(Tail(s))
    ELSE SelectObjs(Tail(s))

-----------------------------------------------------------------------------
(* commit_your_day: domain model *)

CommitKeys == {"id", "timestamp", "date", "type", "scope", "message",
               "details", "tags", "mood_score", "energy_score"}

LifeCommit_to_dict(c) ==
    JObj([id |-> JStr(c.commit_id),
          timestamp |-> JStr(c.timestamp),
          date |-> JStr(c.commit_date),
          type |-> JStr(c.commit_type),
          scope |-> JStr(c.scope),
          message |-> JStr(c.message),
          details |-> JStr(c.details),
          tags |-> JList(MapSeq(JStr, c.tags)),
          mood_score |-> JInt(c.mood_score),
          energy_score |-> JInt(c.energy_score)])

\* the exception LifeCommit.from_dict raises on this entry, "none" when it returns
LifeCommit_from_dict_raises(data) ==
    LET mood_raw == Get(data, "mood_score", JInt(MOOD_DEFAULT))
        energy_raw == Get(data, "energy_score", JInt(ENERGY_DEFAULT))
    IN  IF IsNumber(mood_raw) /\ IntRaises(mood_raw) # "none" THEN IntRaises(mood_raw)
        ELSE IF IsNumber(energy_raw) THEN IntRaises(energy_raw)
        ELSE "none"

\* mutation of LifeCommit_from_dict: the stored scope is not read back
LifeCommit_from_dict_no_scope(data) ==
    LET tags_raw == Get(data, "tags", JList(<<>>))
        mood_raw == Get(data, "mood_score", JInt(MOOD_DEFAULT))
        energy_raw == Get(data, "energy_score", JInt(ENERGY_DEFAULT))
    IN  [commit_id |-> PyStr(Get(data, "id", JStr(""))),
         timestamp |-> PyStr(Get(data, "timestamp", JStr(""))),
         commit_date |-> PyStr(Get(data, "date", JStr(""))),
         commit_type |-> PyStr(Get(data, "type", JStr("feat"))),
         scope |-> "life",
         message |-> PyStr(Get(data, "message", JStr(""))),
         details |-> PyStr(Get(data, "details", JStr(""))),
         tags |-> IF tags_raw.t = "list" THEN MapSeq(PyStr, tags_raw.items) ELSE <<>>,
         mood_score |-> IF IsNumber(mood_raw) THEN PyInt(mood_raw) ELSE MOOD_DEFAULT,
         energy_score |-> IF IsNumber(energy_raw) THEN PyInt(energy_raw) ELSE ENERGY_DEFAULT]

LifeCommit_from_dict(data) ==
    LET tags_raw == Get(data, "tags", JList(<<>>))
        mood_raw == Get(data, "mood_score", JInt(MOOD_DEFAULT))
        energy_raw == Get(data, "energy_score", JInt(ENERGY_DEFAULT))
    IN  [commit_id |-> PyStr(Get(data, "id", JStr(""))),
         timestamp |-> PyStr(Get(data, "timestamp", JStr(""))),
         commit_date |-> PyStr(Get(data, "date", JStr(""))),
         commit_type |-> PyStr(Get(data, "type", JStr("feat"))),
         scope |-> PyStr(Get(data, "scope", JStr("life"))),
         message |-> PyStr(Get(data, "message", JStr(""))),
         details |-> PyStr(Get(data, "details", JStr(""))),
         tags |-> IF tags_raw.t = "list" THEN MapSeq(PyStr, tags_raw.items) ELSE <<>>,
         mood_score |-> IF IsNumber(mood_raw) THEN PyInt(mood_raw) ELSE MOOD_DEFAULT,
         energy_score |-> IF IsNumber(energy_raw) THEN PyInt(energy_raw) ELSE ENERGY_DEFAULT]

NoStore == [k |-> "none"]

CommitStore(version, created_at, commits) ==
    [k |-> "CommitStore", version |-> version, created_at |-> created_at, commits |-> commits]

CommitStore_to_dict(s) ==
    JObj([version |-> JStr(s.version),
          created_at |-> JStr(s.created_at),
          commits |-> JList(MapSeq(LifeCommit_to_dict, s.commits))])

\* the dict entries of data["commits"] that from_dict is applied to
CommitEntries(data) ==
    LET commits_raw == Get(data, "commits", JList(<<>>))
    IN  IF commits_raw.t = "list" THEN SelectObjs(commits_raw.items) ELSE <<>>

RECURSIVE FirstRaise(_)
FirstRaise(entries) ==
    IF entries = <<>> THEN "none"
    ELSE IF LifeCommit_from_dict_raises(Head(entries)) # "none"
         THEN LifeCommit_from_dict_raises(Head(entries))
    ELSE FirstRaise(Tail(entries))

CommitStore_from_dict_raises(data) == FirstRaise(CommitEntries(data))

CommitStore_from_dict(data) ==
    CommitStore(PyStr(Get(data, "version", JStr(SCHEMA_VERSION))),
                PyStr(Get(data, "created_at", JStr(""))),
                MapSeq(LifeCommit_from_dict, CommitEntries(data)))

\* datetime.now(tz=timezone.utc).isoformat() and date.today().isoformat()
NowUtcIso(clock) == ToString(clock)
Today(clock) == ToString(clock)

\* mutation of new_store: created_at keeps the dataclass default
new_store_undated(clock) == CommitStore(SCHEMA_VERSION, "", <<>>)

new_store(clock) == CommitStore(SCHEMA_VERSION, NowUtcIso(clock), <<>>)

\* mutation of Clamp: the value passes as it is
Clamp_not(lo, hi, v) == v

\* max(lo, min(hi, v))
Clamp(lo, hi, v) == IF v < lo THEN lo ELSE IF v > hi THEN hi ELSE v

\* TYPE_KEYWORDS lookup over the messages the model uses
detect_commit_type(message) ==
    CASE message = "fixed the sink" -> "fix"
      [] message = "learned chess" -> "docs"
      [] OTHER -> "feat"

\* str(uuid.uuid4()): a value never drawn before
Uuid4(n) == ToString(n)

create_commit(in, clock, n) ==
    [commit_id |-> Uuid4(n),
     timestamp |-> NowUtcIso(clock),
     commit_date |-> Today(clock),
     commit_type |-> IF in.commit_type # "" THEN in.commit_type
                     ELSE detect_commit_type(in.message),
     scope |-> in.scope,
     message |-> in.message,
     details |-> in.details,
     tags |-> in.tags,
     mood_score |-> Clamp(MOOD_MIN, MOOD_MAX, in.mood),
     energy_score |-> Clamp(ENERGY_MIN, ENERGY_MAX, in.energy)]

-----------------------------------------------------------------------------
(* commit_your_day: what the user types *)

\* Python's None where the code expects an optional string
None == "<None>"

\* input() raising EOFError or KeyboardInterrupt
EOF == "<EOF>"

\* bool(s) of an optional string: None and "" are falsy
Truthy(s) == s \notin {None, ""}

\* str.strip() over the strings the model types
PyStrip(s) ==
    CASE s = "  " -> ""
      [] s = " walked " -> "walked"
      [] OTHER -> s

\* str.lower() over the strings the model types
PyLower(s) ==
    CASE s = "N" -> "n"
      [] s = "Y" -> "y"
      [] s = "Edit" -> "edit"
      [] OTHER -> s

\* the integers whose decimal text the model types
TypedInts == (0 - 10)..100

\* int(raw): [err, n]; ValueError unless raw is the decimal text of an integer
ParseInt(raw) ==
    IF \E n \in TypedInts : ToString(n) = raw
    THEN [err |-> "none", n |-> CHOOSE n \in TypedInts : ToString(n) = raw]
    ELSE [err |-> "ValueError", n |-> 0]

\* tuple(t.strip() for t in raw.split(",") if t.strip())
SplitTags(raw) ==
    CASE raw = "a, b" -> <<"a", "b">>
      [] raw = "diy,home" -> <<"diy", "home">>
      [] raw = " , " -> <<>>
      [] OTHER -> <<raw>>

\* the line the n-th call of input() gets: EOF once stdin is exhausted
Line(script, n) == IF n <= Len(script) THEN script[n] ELSE EOF

\* _prompt_input: [exit, value]; exit means sys.exit(0)
prompt_input(response, default) ==
    [exit |-> response = EOF,
     value |-> IF PyStrip(response) = "" /\ default # "" THEN default ELSE PyStrip(response)]

\* _prompt_int: [exit, value]; max(min_val, min(max_val, value))
prompt_int(response, default, min_val, max_val) ==
    LET raw == prompt_input(response, ToString(default))
        value == ParseInt(raw.value)
    IN  [exit |-> raw.exit,
         value |-> IF value.err # "none" THEN default ELSE Clamp(min_val, max_val, value.n)]

\* the prompts of _cmd_interactive, answered from the script:
\*   "exit0"  a prompt was interrupted: sys.exit(0)
\*   "return" nothing to commit, or the suggestion was declined
\*   "commit" all prompts answered; in holds the arguments of _create_commit
interactive(script) ==
    LET first == prompt_input(Line(script, 1), "")
        accept == prompt_input(Line(script, 2), "Y")
        edit == PyLower(accept.value) = "edit"
        edited == prompt_input(Line(script, 3), "")
        k == IF edit THEN 3 ELSE 2
        raw_message == IF edit THEN edited.value ELSE first.value
        tags_raw == prompt_input(Line(script, k + 1), "")
        energy == prompt_int(Line(script, k + 2), ENERGY_DEFAULT, ENERGY_MIN, ENERGY_MAX)
        mood == prompt_int(Line(script, k + 3), MOOD_DEFAULT, MOOD_MIN, MOOD_MAX)
        in == [message |-> raw_message,
               commit_type |-> detect_commit_type(raw_message),
               scope |-> "life",
               details |-> "",
               tags |-> IF tags_raw.value # "" /\ PyLower(tags_raw.value) # "skip"
                        THEN SplitTags(tags_raw.value) ELSE <<>>,
               mood |-> mood.value,
               energy |-> energy.value]
        none == [message |-> "", commit_type |-> "", scope |-> "", details |-> "",
                 tags |-> <<>>, mood |-> 0, energy |-> 0]
    IN  IF first.exit THEN [end |-> "exit0", in |-> none]
        ELSE IF first.value = "" THEN [end |-> "return", in |-> none]
        ELSE IF accept.exit THEN [end |-> "exit0", in |-> none]
        ELSE IF PyLower(accept.value) = "n" THEN [end |-> "return", in |-> none]
        ELSE IF edit /\ edited.exit THEN [end |-> "exit0", in |-> none]
        ELSE IF edit /\ edited.value = "" THEN [end |-> "return", in |-> none]
        ELSE IF tags_raw.exit \/ energy.exit \/ mood.exit THEN [end |-> "exit0", in |-> none]
        ELSE [end |-> "commit", in |-> in]

-----------------------------------------------------------------------------
(* pebbles: domain model *)

PebbleStore(items) == [k |-> "pebbles", items |-> items]

new_pebble(text, clock) == [text |-> text, timestamp |-> NowUtcIso(clock)]

\* dataclasses.asdict
Pebble_asdict(p) == JObj([text |-> JStr(p.text), timestamp |-> JStr(p.timestamp)])

IsPebbleEntry(e) ==
    /\ e.t = "obj"
    /\ e.f.text.t = "str"
    /\ e.f.timestamp.t = "str"

RECURSIVE PebblesOf(_)
PebblesOf(entries) ==
    IF entries = <<>> THEN <<>>
    ELSE IF IsPebbleEntry(Head(entries))
         THEN <<[text |-> Head(entries).f.text.s,
                 timestamp |-> Head(entries).f.timestamp.s]>> \o PebblesOf(Tail(entries))
    ELSE PebblesOf(Tail(entries))

-----------------------------------------------------------------------------
(* Text: what a file holds, as a sequence of chunks *)

HeadChunk(version, created_at) == [c |-> "head", version |-> version, created_at |-> created_at]
ItemChunk(v) == [c |-> "item", v |-> v]
TailChunk == [c |-> "tail"]
ListHeadChunk == [c |-> "lhead"]
ListTailChunk == [c |-> "ltail"]
DocChunk(v) == [c |-> "doc", v |-> v]      \* a complete JSON document written by something else
JunkChunk == [c |-> "junk"]                \* text that is not JSON
BadUtf8Chunk == [c |-> "badutf8"]          \* bytes that are not UTF-8
NewlineChunk == [c |-> "nl"]               \* whitespace

\* json.dumps(v, indent=2, ensure_ascii=False) of a store dict or of a list
json_dumps(v) ==
    IF v.t = "list"
    THEN <<ListHeadChunk>> \o MapSeq(ItemChunk, v.items) \o <<ListTailChunk>>
    ELSE <<HeadChunk(v.f.version, v.f.created_at)>>
         \o MapSeq(ItemChunk, v.f.commits.items) \o <<TailChunk>>

\* str.strip(): drop leading and trailing whitespace
RECURSIVE LStrip(_)
LStrip(text) ==
    IF text # <<>> /\ Head(text).c = "nl" THEN LStrip(Tail(text)) ELSE text

RECURSIVE RStrip(_)
RStrip(text) ==
    IF text # <<>> /\ text[Len(text)].c = "nl"
    THEN RStrip(SubSeq(text, 1, Len(text) - 1)) ELSE text

Strip(text) == RStrip(LStrip(text))

Middle(text) == SubSeq(text, 2, Len(text) - 1)

AllItems(text) == \A i \in 1..Len(text) : text[i].c = "item"

ItemValues(text) == [i \in 1..Len(text) |-> text[i].v]

\* json.loads(text): [err, v]; surrounding whitespace is ignored
json_loads(text) ==
    LET s == Strip(text)
    IN  IF Len(s) = 1 /\ s[1].c = "doc"
        THEN [err |-> "none", v |-> s[1].v]
        ELSE IF Len(s) >= 2 /\ s[1].c = "head" /\ s[Len(s)].c = "tail" /\ AllItems(Middle(s))
        THEN [err |-> "none",
              v |-> JObj([version |-> s[1].version, created_at |-> s[1].created_at,
                          commits |-> JList(ItemValues(Middle(s)))])]
        ELSE IF Len(s) >= 2 /\ s[1].c = "lhead" /\ s[Len(s)].c = "ltail" /\ AllItems(Middle(s))
        THEN [err |-> "none", v |-> JList(ItemValues(Middle(s)))]
        ELSE [err |-> "JSONDecodeError", v |-> JNull]

-----------------------------------------------------------------------------
(* The directory *)

NoFile == [ex |-> FALSE, rd |-> FALSE, data |-> <<>>]
File(data) == [ex |-> TRUE, rd |-> TRUE, data |-> data]
Unreadable(data) == [ex |-> TRUE, rd |-> FALSE, data |-> data]

PRIMARY == 0
backup_path(generation) == generation                 \* <file>.bak<generation>
CORRUPTED == MAX_BACKUPS + 2                          \* <file>.corrupted
TmpPath(i) == CORRUPTED + i                           \* the names mkstemp hands out
BackupGens == 1..(MAX_BACKUPS + 1)                    \* one slot above MAX_BACKUPS is watched
TmpIdx == 1..MaxTmp
FileIdx == 0..(CORRUPTED + MaxTmp)

\* Path.read_text(encoding="utf-8"): [err, text]
read_text(f) ==
    IF ~f.rd THEN [err |-> "OSError", text |-> <<>>]
    ELSE IF \E i \in 1..Len(f.data) : f.data[i].c = "badutf8"
    THEN [err |-> "UnicodeDecodeError", text |-> <<>>]
    ELSE [err |-> "none", text |-> f.data]

ExistingTmps(fs) == {i \in TmpIdx : fs[TmpPath(i)].ex}

\* tempfile.mkstemp: a name that does not exist yet
FreshTmp(fs) == CHOOSE i \in TmpIdx : ~fs[TmpPath(i)].ex /\ \A j \in TmpIdx : j < i => fs[TmpPath(j)].ex

-----------------------------------------------------------------------------
(* Inputs and initial directories *)

NoRec == [k |-> "none"]
NoArg == [k |-> "none"]

\* argparse namespaces without --log, --random, --summary, --stats:
\* -m, --type, --scope, --details, --tags, --mood, --energy
PlainArgs(message) ==
    [message |-> message, commit_type |-> "", scope |-> "life", details |-> "",
     tags |-> <<>>, mood |-> MOOD_DEFAULT, energy |-> ENERGY_DEFAULT]

QuickArgs ==
    { PlainArgs("walked"),
      [message |-> "fixed the sink", commit_type |-> "", scope |-> "home",
       details |-> "took an hour", tags |-> <<"diy", "home">>, mood |-> 2, energy |-> 5],
      [message |-> "walked", commit_type |-> "chore", scope |-> "life", details |-> "",
       tags |-> <<>>, mood |-> 99, energy |-> ENERGY_DEFAULT],
      [message |-> "walked", commit_type |-> "", scope |-> "life", details |-> "",
       tags |-> <<>>, mood |-> MOOD_DEFAULT, energy |-> 0],
      PlainArgs("  "),
      PlainArgs(""),
      PlainArgs(None) }

\* what the user types at the prompts of _cmd_interactive, line by line
Scripts ==
    { <<>>,
      <<"  ">>,
      <<" walked ">>,
      <<"walked", "N">>,
      <<"walked", "Edit">>,
      <<"walked", "edit", "">>,
      <<"walked", "", "a, b">>,
      <<"walked", "Y", "skip", "9">>,
      <<"walked", "", "a, b", "9", "-7">>,
      <<"walked", "edit", "learned chess", "", "several", "99">> }

\* pebbles add <text>
PebbleTexts == {"tea", "morning sun", ""}

\* what the user types when pebbles add is run without a text
PebbleLines == {"tea", "  ", EOF}

\* answers to the confirmation prompt of pebbles clear
ClearAnswers == {"y", "n", EOF}

AbsentEntry == [key \in CommitKeys |-> JAbsent]

OldCommit(n) ==
    [commit_id |-> ToString(0 - n), timestamp |-> ToString(0 - n), commit_date |-> ToString(0 - n),
     commit_type |-> "feat", scope |-> "life", message |-> "earlier", details |-> "",
     tags |-> <<"old">>, mood_score |-> 1, energy_score |-> 4]

OldStore(n) == CommitStore(SCHEMA_VERSION, ToString(0 - 10), <<OldCommit(n)>>)

StoreText(s) == json_dumps(CommitStore_to_dict(s))

\* an object whose fields are missing or of the wrong type
OddDoc ==
    JObj([version |-> JInt(1), created_at |-> JNull,
          commits |-> JList(<< JInt(7),
                              JObj([AbsentEntry EXCEPT !["id"] = JInt(5),
                                                       !["tags"] = JStr("x"),
                                                       !["mood_score"] = JInt(99),
                                                       !["energy_score"] = JFloat(2)]),
                              JObj([AbsentEntry EXCEPT !["mood_score"] = JBool(TRUE),
                                                       !["tags"] = JList(<<JInt(3)>>)]) >>)])

\* an object holding a number that int() cannot convert
NaNDoc ==
    JObj([version |-> JStr(SCHEMA_VERSION), created_at |-> JStr("x"),
          commits |-> JList(<< JObj([AbsentEntry EXCEPT !["mood_score"] = JNaN]) >>)])

InfDoc ==
    JObj([version |-> JAbsent, created_at |-> JAbsent,
          commits |-> JList(<< JObj([AbsentEntry EXCEPT !["energy_score"] = JInf]) >>)])

EmptyDir == [i \in FileIdx |-> NoFile]

Dir(p, b1, b2, b3) ==
    [EmptyDir EXCEPT ![PRIMARY] = p, ![backup_path(1)] = b1,
                     ![backup_path(2)] = b2, ![backup_path(3)] = b3]

Good(n) == File(StoreText(OldStore(n)))
Truncated(n) == File(SubSeq(StoreText(OldStore(n)), 1, 2))
Junk == File(<<JunkChunk>>)
Doc(v) == File(<<DocChunk(v)>>)

\* the directories a run of commit_your_day may start from
CommitDirs ==
    { EmptyDir,
      Dir(Good(1), NoFile, NoFile, NoFile),
      Dir(Good(1), Good(2), Good(3), Good(4)),
      Dir(Good(1), Junk, NoFile, NoFile),
      Dir(NoFile, Good(2), NoFile, NoFile),
      Dir(NoFile, Doc(InfDoc), NoFile, NoFile),
      Dir(Junk, NoFile, NoFile, NoFile),
      Dir(Junk, Good(2), Good(3), NoFile),
      Dir(Junk, Junk, NoFile, Good(4)),
      Dir(Junk, Doc(InfDoc), Good(3), NoFile),
      Dir(Truncated(1), Doc(JNull), Truncated(3), NoFile),
      Dir(File(<<>>), Good(2), NoFile, NoFile),
      Dir(Doc(JList(<<JInt(1)>>)), NoFile, NoFile, NoFile),
      Dir(Doc(JList(<<JInt(1)>>)), Good(2), NoFile, NoFile),
      Dir(Doc(OddDoc), NoFile, NoFile, NoFile),
      Dir(Doc(NaNDoc), Good(2), NoFile, NoFile),
      Dir(File(<<BadUtf8Chunk>>), Good(2), NoFile, NoFile),
      Dir(Unreadable(StoreText(OldStore(1))), NoFile, NoFile, NoFile),
      Dir(Unreadable(StoreText(OldStore(1))), Good(2), Good(3), NoFile) }

OldPebble == [text |-> "rain", timestamp |-> ToString(0 - 1)]

PebblesText(items) == json_dumps(JList(MapSeq(Pebble_asdict, items))) \o <<NewlineChunk>>

PebbleFile(p) == [EmptyDir EXCEPT ![PRIMARY] = p]

\* the directories a run of pebbles may start from
PebbleDirs ==
    { EmptyDir,
      PebbleFile(File(PebblesText(<<OldPebble>>))),
      PebbleFile(Unreadable(PebblesText(<<OldPebble>>))),
      PebbleFile(File(SubSeq(PebblesText(<<OldPebble>>), 1, 2))),
      PebbleFile(File(<<>>)),
      PebbleFile(File(<<NewlineChunk>>)),
      PebbleFile(Junk),
      PebbleFile(File(<<BadUtf8Chunk>>)),
      PebbleFile(Doc(JObj([text |-> JStr("a"), timestamp |-> JStr("b")]))),
      PebbleFile(Doc(JList(<< JInt(1),
                              JObj([text |-> JStr("kept"), timestamp |-> JStr("t")]),
                              JObj([text |-> JStr("no time"), timestamp |-> JAbsent]),
                              JObj([text |-> JInt(4), timestamp |-> JStr("t")]) >>))) }

\* capsule.py and memory_jar.py: one data file, a JSON list of objects
OldNote == JObj([message |-> JStr("rest"), created_at |-> JStr(ToString(0 - 1)),
                 tags |-> JList(<<>>)])

OldMemory == JObj([text |-> JStr("sunrise"), date |-> JStr(ToString(0 - 1)),
                   timestamp |-> JStr(ToString(0 - 1))])

\* json.dumps(capsules, ..) + "\n" of save_data; json.dump(memories, f, ..) of save_jar
ListText(program, items) ==
    json_dumps(JList(items)) \o (IF program = "capsule" THEN <<NewlineChunk>> ELSE <<>>)

DataFile(p) == [EmptyDir EXCEPT ![PRIMARY] = p]

\* the directories a run of capsule may start from
CapsuleDirs ==
    { EmptyDir,
      DataFile(File(ListText("capsule", <<OldNote>>))),
      DataFile(Unreadable(ListText("capsule", <<OldNote>>))),
      DataFile(File(SubSeq(ListText("capsule", <<OldNote>>), 1, 2))),
      DataFile(File(<<>>)),
      DataFile(Junk),
      DataFile(File(<<BadUtf8Chunk>>)),
      DataFile(Doc(OldNote)),
      DataFile(Doc(JList(<<JInt(1)>>))),
      DataFile(Doc(JList(<<JObj([message |-> JStr("undated"), created_at |-> JAbsent,
                                 tags |-> JList(<<>>)])>>))) }

\* the directories a run of memory_jar may start from
JarDirs ==
    { EmptyDir,
      DataFile(File(ListText("memory_jar", <<OldMemory>>))),
      DataFile(Unreadable(ListText("memory_jar", <<OldMemory>>))),
      DataFile(File(SubSeq(ListText("memory_jar", <<OldMemory>>), 1, 2))),
      DataFile(Junk),
      DataFile(File(<<BadUtf8Chunk>>)),
      DataFile(Doc(OldMemory)),
      DataFile(Doc(JInt(7))),
      DataFile(Doc(JNull)),
      DataFile(Doc(JList(<<JStr("loose"),
                           JObj([text |-> JAbsent, date |-> JStr("d"),
                                 timestamp |-> JStr("t")])>>))) }

StartDirs(program) ==
    CASE program = "commit_your_day" -> CommitDirs
      [] program = "pebbles" -> PebbleDirs
      [] program = "capsule" -> CapsuleDirs
      [] OTHER -> JarDirs

\* nothing worked out
NoOut == [k |-> "none"]

\* buddy is not running
NoPet == [pc |-> "absent", mood |-> "none", duration |-> 0, cursor |-> "shown",
          goodbye |-> FALSE, clock |-> 0, deadline |-> 0, frames_in_action |-> 0,
          current_action |-> "none", frame_index |-> 0, art |-> "none",
          chosen |-> FALSE, last |-> "none", idle_shown |-> FALSE,
          rested |-> FALSE,
          hid |-> FALSE, started |-> 0,
          sigint |-> <<>>, exit |-> "none", args |-> << >>]

\* neither toybox nor pocket_poet is running
\* (an optional integer is a sequence of at most one integer, what a run
\* printed a sequence of at most one text, and exit is -1 while it runs)
NoToy == [program |-> "none", pc |-> "absent", run |-> 0,
          args |-> [category |-> None, difficulty |-> None, seed |-> << >>,
                    lines |-> None],
          rng |-> [by |-> "none", n |-> 0, pos |-> 0], lines |-> 0,
          chosen_category |-> None, pool |-> << >>, constraint |-> << >>,
          result |-> << >>, exit |-> 0 - 1, err |-> "none",
          first |-> [result |-> << >>, exit |-> 0 - 1,
                     rng |-> [by |-> "none", n |-> 0, pos |-> 0]]]

\* no copy2 in progress
NoCopy == [dst |-> PRIMARY, linked |-> FALSE, src |-> <<>>, off |-> 0]

\* there is no second invocation
NoProc ==
    [pc |-> "absent", cmd |-> "none", arg |-> NoArg, cand |-> 0, gen |-> 0,
     store |-> NoStore, newrec |-> NoRec, payload |-> <<>>, tmp |-> 0, wctx |-> "none",
     outcome |-> "none", pre |-> EmptyDir, wpre |-> NoFile, ret |-> NoStore,
     wres |-> "none", at |-> "none", cp |-> NoCopy]

Locals ==
    /\ pc = "idle"
    /\ cmd = "none"
    /\ arg = NoArg
    /\ cand = 0
    /\ gen = 0
    /\ store = NoStore
    /\ newrec = NoRec
    /\ payload = <<>>
    /\ tmp = 0
    /\ wctx = "none"
    /\ outcome = "none"
    /\ wres = "none"
    /\ at = "none"
    /\ ret = NoStore
    /\ wpre = NoFile
    /\ cp = NoCopy

Init ==
    /\ tool \in {"commit_your_day", "pebbles", "capsule", "memory_jar"}
    /\ files \in StartDirs(tool)
    /\ \/ /\ files = EmptyDir
          /\ faults = 0
          /\ budget = MaxCmds
       \/ /\ faults = MaxFaults
          /\ budget = MaxCmdsHostile
    /\ Locals
    /\ now = 0
    /\ uuids = 0
    /\ pre = files
    /\ hist = <<>>
    /\ clean = (files = EmptyDir)
    /\ lastSave = NoStore
    /\ other = NoProc
    /\ turn = 1
    /\ out = NoOut
    /\ pet = NoPet
    /\ toy = NoToy

-----------------------------------------------------------------------------
(* How an invocation ends *)

\* the process ends: exit status 0 ("returned"), exit status 1 ("exit1"),
\* an uncaught exception (its name) or a kill ("killed")
Done(result) ==
    /\ pc' = "done"
    /\ outcome' = result
    /\ at' = pc

\* the environment makes a system call fail, or kills the process
Fault ==
    /\ faults > 0
    /\ faults' = faults - 1
    /\ clean' = FALSE

NoFault == UNCHANGED << faults, clean >>

-----------------------------------------------------------------------------
(* commit_your_day: command handlers up to the load *)

QuickArgsInvalid(args) ==
    \/ PyStrip(args.message) = ""
    \/ args.mood < MOOD_MIN \/ args.mood > MOOD_MAX
    \/ args.energy < ENERGY_MIN \/ args.energy > ENERGY_MAX

\* main dispatching to _cmd_quick_commit ("elif args.message:"), lines 931-972:
\* validate, build the commit, call _load_store
cmd_quick_commit(args) ==
    /\ tool = "commit_your_day"
    /\ pc = "idle"
    /\ Truthy(args.message)
    /\ budget > 0
    /\ budget' = budget - 1
    /\ now' = now + 1
    /\ cmd' = "add"
    /\ arg' = [k |-> "quick", args |-> args]
    /\ pre' = files
    /\ IF QuickArgsInvalid(args)
       THEN /\ Done("exit1")
            /\ UNCHANGED << newrec, uuids >>
       ELSE /\ newrec' = create_commit([args EXCEPT !.message = PyStrip(@)], now', uuids + 1)
            /\ uuids' = uuids + 1
            /\ pc' = "load"
            /\ UNCHANGED << outcome, at >>
    /\ UNCHANGED << tool, files, cand, gen, store, payload, tmp, wctx, wpre, ret,
                    hist, clean, faults, lastSave, wres >>
    /\ UNCHANGED << cp, other, turn >>
    /\ UNCHANGED apart

\* main dispatching to _cmd_interactive (no command flag, args.message falsy),
\* lines 980-1026: all the prompts, build the commit, call _load_store
cmd_interactive(args, script) ==
    /\ tool = "commit_your_day"
    /\ pc = "idle"
    /\ ~Truthy(args.message)
    /\ budget > 0
    /\ budget' = budget - 1
    /\ now' = now + 1
    /\ cmd' = IF interactive(script).end = "commit" THEN "add" ELSE "prompt"
    /\ arg' = [k |-> "interactive", args |-> args, script |-> script]
    /\ pre' = files
    /\ LET r == interactive(script)
       IN  CASE r.end = "exit0" ->
                  /\ Done("exit0")
                  /\ UNCHANGED << newrec, uuids >>
             [] r.end = "return" ->
                  /\ Done("returned")
                  /\ UNCHANGED << newrec, uuids >>
             [] OTHER ->
                  /\ newrec' = create_commit(r.in, now', uuids + 1)
                  /\ uuids' = uuids + 1
                  /\ pc' = "load"
                  /\ UNCHANGED << outcome, at >>
    /\ UNCHANGED << tool, files, cand, gen, store, payload, tmp, wctx, wpre, ret,
                    hist, clean, faults, lastSave, wres >>
    /\ UNCHANGED << cp, other, turn >>
    /\ UNCHANGED apart

\* _cmd_log, _cmd_random, _cmd_summary, _cmd_stats: call _load_store, then only print
cmd_read ==
    /\ tool = "commit_your_day"
    /\ pc = "idle"
    /\ budget > 0
    /\ budget' = budget - 1
    /\ now' = now + 1
    /\ cmd' = "read"
    /\ pre' = files
    /\ pc' = "load"
    /\ UNCHANGED << tool, files, arg, cand, gen, store, newrec, payload, tmp, wctx,
                    outcome, uuids, wpre, ret, hist, clean, faults, lastSave, wres, at >>
    /\ UNCHANGED << cp, other, turn >>
    /\ UNCHANGED apart

-----------------------------------------------------------------------------
(* commit_your_day: _load_store *)

\* candidates = [path, bak1, .., bak<MAX_BACKUPS>]
CandidatePath(i) == IF i = 0 THEN PRIMARY ELSE backup_path(i)

\* candidate == path
IsPath_never(i) == FALSE
IsPath(i) == i = 0

\* what the body of the loop does with one candidate, before any write:
\*   "skip"     continue with the next candidate
\*   "except"   an exception of the except clause was raised
\*   "raise"    an exception the except clause does not name
\*   "store"    a store was built
Examine(f) ==
    LET r == read_text(f)
        j == json_loads(r.text)
    IN  IF ~f.ex THEN [act |-> "skip", exc |-> "none"]
        ELSE IF r.err = "OSError" THEN [act |-> "except", exc |-> "OSError"]
        ELSE IF r.err # "none" THEN [act |-> "raise", exc |-> r.err]
        ELSE IF j.err # "none" THEN [act |-> "except", exc |-> j.err]
        ELSE IF j.v.t # "obj" THEN [act |-> "skip", exc |-> "none"]
        ELSE IF CommitStore_from_dict_raises(j.v) # "none"
        THEN [act |-> "raise", exc |-> CommitStore_from_dict_raises(j.v)]
        ELSE [act |-> "store", exc |-> "none"]

Built(f) == CommitStore_from_dict(json_loads(read_text(f).text).v)

\* one turn of the for loop of _load_store, up to its first write to the directory
load_store ==
    /\ tool = "commit_your_day"
    /\ pc = "load"
    /\ IF cand > MAX_BACKUPS
       THEN /\ store' = new_store(now)
            /\ ret' = new_store(now)
            /\ pc' = "loaded"
            /\ UNCHANGED << cand, payload, wctx, wpre, wres, outcome, at, clean, faults >>
       ELSE LET f == files[CandidatePath(cand)]
                e == Examine(f)
            IN  CASE e.act = "skip" ->
                       /\ cand' = cand + 1
                       /\ UNCHANGED << pc, store, ret, payload, wctx, wpre, wres,
                                       outcome, at, clean, faults >>
                  [] e.act = "except" ->
                       /\ IF IsPath(cand)
                          THEN pc' = "cc_open" /\ cand' = cand
                          ELSE pc' = pc /\ cand' = cand + 1
                       /\ UNCHANGED << store, ret, payload, wctx, wpre, wres,
                                       outcome, at, clean, faults >>
                  [] e.act = "raise" ->
                       /\ Done(e.exc)
                       /\ clean' = FALSE
                       /\ UNCHANGED << cand, store, ret, payload, wctx, wpre, wres, faults >>
                  [] OTHER ->
                       /\ store' = Built(f)
                       /\ IF ~IsPath(cand)
                          THEN /\ payload' = StoreText(Built(f))
                               /\ wctx' = "promote"
                               /\ wpre' = files[PRIMARY]
                               /\ wres' = "none"
                               /\ pc' = "w_mkstemp"
                               /\ UNCHANGED ret
                          ELSE /\ ret' = Built(f)
                               /\ pc' = "loaded"
                               /\ UNCHANGED << payload, wctx, wpre, wres >>
                       /\ UNCHANGED << cand, outcome, at, clean, faults >>
    /\ UNCHANGED << tool, files, cmd, arg, gen, newrec, tmp, now, uuids, budget, pre,
                    hist, lastSave >>
    /\ UNCHANGED << cp, other, turn >>
    /\ UNCHANGED apart

\* shutil.copy2(candidate, corrupted) under suppress(OSError): open both files.
\* An unreadable source or a failing open raises OSError, which is suppressed.
corrupted_open ==
    /\ pc = "cc_open"
    /\ \/ /\ files[PRIMARY].rd
          /\ files' = [files EXCEPT ![CORRUPTED] = File(<<>>)]
          /\ IF files[PRIMARY].data = <<>>
             THEN pc' = "load" /\ cand' = cand + 1
             ELSE pc' = "cc_data" /\ cand' = cand
          /\ NoFault
       \/ /\ IF files[PRIMARY].rd THEN Fault ELSE NoFault
          /\ pc' = "load"
          /\ cand' = cand + 1
          /\ UNCHANGED files
    /\ UNCHANGED << tool, cmd, arg, gen, store, newrec, payload, tmp, wctx, outcome, now,
                    uuids, budget, pre, wpre, ret, hist, lastSave, wres, at >>
    /\ UNCHANGED << cp, other, turn >>
    /\ UNCHANGED apart

\* shutil.copy2(candidate, corrupted): copy the next chunk, or fail (suppressed)
corrupted_data ==
    /\ pc = "cc_data"
    /\ LET n == Len(files[CORRUPTED].data) + 1
       IN  \/ /\ files' = [files EXCEPT ![CORRUPTED].data = Append(@, files[PRIMARY].data[n])]
              /\ IF n = Len(files[PRIMARY].data)
                 THEN pc' = "load" /\ cand' = cand + 1
                 ELSE pc' = pc /\ cand' = cand
              /\ NoFault
           \/ /\ Fault
              /\ pc' = "load"
              /\ cand' = cand + 1
              /\ UNCHANGED files
    /\ UNCHANGED << tool, cmd, arg, gen, store, newrec, payload, tmp, wctx, outcome, now,
                    uuids, budget, pre, wpre, ret, hist, lastSave, wres, at >>
    /\ UNCHANGED << cp, other, turn >>
    /\ UNCHANGED apart

-----------------------------------------------------------------------------
(* commit_your_day: the rest of the command, and _save_store *)

\* mutation of AppendCommit: the new commit replaces the list
AppendCommit_replacing(s, c) == [s EXCEPT !.commits = <<c>>]

\* store.commits.append(commit)
AppendCommit(s, c) == [s EXCEPT !.commits = Append(@, c)]

\* after _load_store returned: read commands only print; the add commands
\* append the commit and enter _save_store (lines 973-974, 1027-1028)
after_load_store ==
    /\ tool = "commit_your_day"
    /\ pc = "loaded"
    /\ IF cmd = "read"
       THEN /\ Done("returned")
            /\ UNCHANGED << store, payload, gen, wctx, wpre, wres >>
       ELSE /\ store' = AppendCommit(store, newrec)
            /\ payload' = StoreText(store')
            /\ gen' = MAX_BACKUPS - 1
            /\ wctx' = "save"
            /\ wpre' = files[PRIMARY]
            /\ wres' = "none"
            /\ pc' = "rotate"
            /\ UNCHANGED << outcome, at >>
    /\ UNCHANGED << tool, files, cmd, arg, cand, newrec, tmp, now, uuids, budget, pre,
                    ret, hist, clean, faults, lastSave >>
    /\ UNCHANGED << cp, other, turn >>
    /\ UNCHANGED apart

\* mutation of AfterRotateLoop: the copy of the primary into bak1 is left out
AfterRotateLoop_no_copy == "w_mkstemp"

\* where _rotate_backups goes after its loop: "if path.exists(): shutil.copy2(..)"
AfterRotateLoop == IF files[PRIMARY].ex THEN "bak_open" ELSE "w_mkstemp"

\* mutation of RotateDst: every backup is moved to the last generation
RotateDst_last(g) == backup_path(MAX_BACKUPS)

\* dst = _backup_path(path, gen + 1)
RotateDst(g) == backup_path(g + 1)

\* a rename moves or replaces the file a second invocation is writing to:
\* its descriptor follows the file to the new name, or is left on a file
\* that has no name any more
Renamed(o, src, dst) ==
    IF ~o.cp.linked THEN o
    ELSE IF o.cp.dst = src THEN [o EXCEPT !.cp.dst = dst]
    ELSE IF o.cp.dst = dst THEN [o EXCEPT !.cp.linked = FALSE]
    ELSE o

\* one turn of the loop of _rotate_backups, up to its test "if src.exists()"
rotate_backups ==
    /\ pc = "rotate"
    /\ IF files[backup_path(gen)].ex
       THEN pc' = "rot_move" /\ gen' = gen
       ELSE /\ gen' = gen - 1
            /\ pc' = IF gen = 1 THEN AfterRotateLoop ELSE "rotate"
    /\ UNCHANGED << tool, files, cmd, arg, cand, store, newrec, payload, tmp, wctx, now,
                    uuids, budget, pre, wpre, ret, hist, lastSave, wres, outcome, at,
                    clean, faults, cp, other, turn >>
    /\ UNCHANGED apart

\* shutil.move(bak<gen>, bak<gen+1>), a rename inside one directory; it may
\* raise OSError, and raises FileNotFoundError when the source has gone since
\* the test
rotate_move ==
    /\ pc = "rot_move"
    /\ LET src == backup_path(gen)
           dst == RotateDst(gen)
       IN  \/ /\ files[src].ex
              /\ files' = [files EXCEPT ![dst] = files[src], ![src] = NoFile]
              /\ other' = Renamed(other, src, dst)
              /\ gen' = gen - 1
              /\ pc' = IF gen = 1 THEN AfterRotateLoop ELSE "rotate"
              /\ UNCHANGED << outcome, at, clean, faults >>
           \/ /\ ~files[src].ex
              /\ Done("FileNotFoundError")
              /\ UNCHANGED << files, gen, other, clean, faults >>
           \/ /\ files[src].ex
              /\ Fault
              /\ Done("OSError")
              /\ UNCHANGED << files, gen, other >>
    /\ UNCHANGED << tool, cmd, arg, cand, store, newrec, payload, tmp, wctx, now, uuids,
                    budget, pre, wpre, ret, hist, lastSave, wres, cp, turn >>
    /\ UNCHANGED apart

\* a write of one chunk at an offset of a file: past the end of the file the
\* gap reads as NUL bytes
WriteAt(data, off, chunk) ==
    IF off < Len(data)
    THEN [data EXCEPT ![off + 1] = chunk]
    ELSE data \o [i \in 1..(off - Len(data)) |-> JunkChunk] \o << chunk >>

\* shutil.copy2(path, bak1): open both files; an unreadable source or a
\* failing open raises OSError out of _save_store
backup_open ==
    /\ pc = "bak_open"
    /\ \/ /\ files[PRIMARY].rd
          /\ files' = [files EXCEPT ![backup_path(1)] = File(<<>>)]
          /\ IF files[PRIMARY].data = <<>>
             THEN pc' = "w_mkstemp" /\ cp' = NoCopy
             ELSE /\ pc' = "bak_data"
                  /\ cp' = [dst |-> backup_path(1), linked |-> TRUE,
                            src |-> files[PRIMARY].data, off |-> 0]
          /\ UNCHANGED << outcome, at, clean, faults >>
       \/ /\ IF files[PRIMARY].rd THEN Fault ELSE NoFault
          /\ Done("OSError")
          /\ UNCHANGED << files, cp >>
    /\ UNCHANGED << tool, cmd, arg, cand, gen, store, newrec, payload, tmp, wctx, now,
                    uuids, budget, pre, wpre, ret, hist, lastSave, wres, other, turn >>
    /\ UNCHANGED apart

\* shutil.copy2(path, bak1): copy the next chunk, or raise OSError
backup_data ==
    /\ pc = "bak_data"
    /\ LET n == cp.off + 1
       IN  \/ /\ files' = IF cp.linked
                          THEN [files EXCEPT ![cp.dst].data = WriteAt(@, cp.off, cp.src[n])]
                          ELSE files
              /\ IF n = Len(cp.src)
                 THEN pc' = "w_mkstemp" /\ cp' = NoCopy
                 ELSE pc' = pc /\ cp' = [cp EXCEPT !.off = n]
              /\ UNCHANGED << outcome, at, clean, faults >>
           \/ /\ Fault
              /\ Done("OSError")
              /\ UNCHANGED << files, cp >>
    /\ UNCHANGED << tool, cmd, arg, cand, gen, store, newrec, payload, tmp, wctx, now,
                    uuids, budget, pre, wpre, ret, hist, lastSave, wres, other, turn >>
    /\ UNCHANGED apart

-----------------------------------------------------------------------------
(* The atomic writer: _write_atomic_json of commit_your_day, _save of pebbles *)

\* the writer returns to its caller: _save_store / _save end the command,
\* the promotion in _load_store returns the store
WriterReturns ==
    /\ wres' = "returned"
    /\ IF wctx = "save"
       THEN /\ Done("returned")
            /\ hist' = Append(hist, payload)
            /\ lastSave' = store
            /\ UNCHANGED << ret, cand >>
       ELSE /\ pc' = "loaded"
            /\ ret' = store
            /\ lastSave' = NoStore
            /\ UNCHANGED << outcome, at, hist, cand >>
    /\ NoFault

\* the writer raises OSError: out of the command from a save; inside
\* _load_store the except clause catches it and the loop goes on
WriterRaises(leftover) ==
    /\ wres' = IF leftover THEN "raised, temp file left" ELSE "raised"
    /\ IF wctx = "save"
       THEN /\ Done("OSError")
            /\ UNCHANGED cand
       ELSE /\ pc' = "load"
            /\ cand' = cand + 1
            /\ UNCHANGED << outcome, at >>
    /\ UNCHANGED << ret, hist, lastSave >>

\* mutation of Written: the file opened for writing is the target itself
Written_in_place(fs, t, chunk) ==
    [fs EXCEPT ![TmpPath(t)].data = Append(@, chunk),
               ![PRIMARY] = File(Append(fs[TmpPath(t)].data, chunk))]

\* f.write(chunk) followed by the flush: the chunk reaches the temp file
Written(fs, t, chunk) == [fs EXCEPT ![TmpPath(t)].data = Append(@, chunk)]

\* mutation of Unlinked: the handler re-raises without the unlink
Unlinked_forgotten(fs, t) == fs

\* tmp_path.unlink(missing_ok=True) / os.unlink(tmp_path)
Unlinked(fs, t) == [fs EXCEPT ![TmpPath(t)] = NoFile]

\* no more temp files may be left behind than there are names for them
MayOrphan == tmp # 0 /\ files[TmpPath(tmp)].ex => Cardinality(ExistingTmps(files)) < MaxTmp

\* tempfile.mkstemp(dir=path.parent, suffix=".tmp")
mkstemp ==
    /\ pc = "w_mkstemp"
    /\ \/ /\ tmp' = FreshTmp(files)
          /\ files' = [files EXCEPT ![TmpPath(tmp')] = File(<<>>)]
          /\ pc' = "w_write"
          /\ wres' = "none"
          /\ UNCHANGED << outcome, at, cand, ret, hist, lastSave, clean, faults >>
       \/ /\ Fault
          /\ tmp' = 0
          /\ WriterRaises(FALSE)
          /\ UNCHANGED files
    /\ UNCHANGED << tool, cmd, arg, gen, store, newrec, payload, wctx, now, uuids,
                    budget, pre, wpre >>
    /\ UNCHANGED << cp, other, turn >>
    /\ UNCHANGED apart

\* f.write(..), f.flush(): the next chunk reaches the temp file, or OSError
write_chunk ==
    /\ pc = "w_write"
    /\ LET n == Len(files[TmpPath(tmp)].data) + 1
       IN  \/ /\ files' = Written(files, tmp, payload[n])
              /\ pc' = IF n = Len(payload) THEN "w_fsync" ELSE pc
              /\ NoFault
           \/ /\ Fault
              /\ pc' = "w_cleanup"
              /\ UNCHANGED files
    /\ UNCHANGED << tool, cmd, arg, cand, gen, store, newrec, payload, tmp, wctx, outcome,
                    now, uuids, budget, pre, wpre, ret, hist, lastSave, wres, at >>
    /\ UNCHANGED << cp, other, turn >>
    /\ UNCHANGED apart

\* os.fsync(f.fileno()) and the close of the with block
fsync ==
    /\ pc = "w_fsync"
    /\ \/ pc' = "w_replace" /\ NoFault
       \/ pc' = "w_cleanup" /\ Fault
    /\ UNCHANGED << tool, files, cmd, arg, cand, gen, store, newrec, payload, tmp, wctx,
                    outcome, now, uuids, budget, pre, wpre, ret, hist, lastSave, wres, at >>
    /\ UNCHANGED << cp, other, turn >>
    /\ UNCHANGED apart

\* tmp_path.replace(path) / os.replace(tmp_path, path): an atomic rename
replace ==
    /\ pc = "w_replace"
    /\ \/ /\ files' = [files EXCEPT ![PRIMARY] = files[TmpPath(tmp)],
                                   ![TmpPath(tmp)] = NoFile]
          /\ WriterReturns
       \/ /\ Fault
          /\ pc' = "w_cleanup"
          /\ UNCHANGED << files, outcome, at, cand, ret, hist, lastSave, wres >>
    /\ UNCHANGED << tool, cmd, arg, gen, store, newrec, payload, tmp, wctx, now, uuids,
                    budget, pre, wpre >>
    /\ UNCHANGED << cp, other, turn >>
    /\ UNCHANGED apart

\* the except BaseException / finally block: unlink the temp file, ignoring
\* an OSError of the unlink itself (the failure that brought the writer here
\* may hit the unlink too), then re-raise
cleanup ==
    /\ pc = "w_cleanup"
    /\ \/ /\ files' = Unlinked(files, tmp)
          /\ WriterRaises(FALSE)
       \/ /\ MayOrphan
          /\ UNCHANGED files
          /\ WriterRaises(TRUE)
    /\ NoFault
    /\ UNCHANGED << tool, cmd, arg, gen, store, newrec, payload, tmp, wctx, now, uuids,
                    budget, pre, wpre >>
    /\ UNCHANGED << cp, other, turn >>
    /\ UNCHANGED apart

-----------------------------------------------------------------------------
(* pebbles: commands *)

\* main() of pebbles dispatching to _cmd_add (with its text), _cmd_shake,
\* _cmd_list, _cmd_stats ("read") or _cmd_clear, up to the call of _load
pebbles_cmd(command, input) ==
    /\ tool = "pebbles"
    /\ pc = "idle"
    /\ budget > 0
    /\ budget' = budget - 1
    /\ now' = now + 1
    /\ cmd' = command
    /\ arg' = [k |-> "pebbles", text |-> input, typed |-> None]
    /\ pre' = files
    /\ IF command = "add" /\ input = ""
       THEN Done("exit1")
       ELSE pc' = "load" /\ UNCHANGED << outcome, at >>
    /\ UNCHANGED << tool, files, cand, gen, store, newrec, payload, tmp, wctx, uuids,
                    wpre, ret, hist, clean, faults, lastSave, wres >>
    /\ UNCHANGED << cp, other, turn >>
    /\ UNCHANGED apart

\* _cmd_add with text None, lines 174-185: the text is read from the terminal
pebbles_add_prompt(line) ==
    /\ tool = "pebbles"
    /\ pc = "idle"
    /\ budget > 0
    /\ budget' = budget - 1
    /\ now' = now + 1
    /\ cmd' = "add"
    /\ arg' = [k |-> "pebbles", text |-> IF line = EOF THEN "" ELSE PyStrip(line),
               typed |-> line]
    /\ pre' = files
    /\ IF line = EOF \/ PyStrip(line) = ""
       THEN Done("exit1")
       ELSE pc' = "load" /\ UNCHANGED << outcome, at >>
    /\ UNCHANGED << tool, files, cand, gen, store, newrec, payload, tmp, wctx, uuids,
                    wpre, ret, hist, clean, faults, lastSave, wres >>
    /\ UNCHANGED << cp, other, turn >>
    /\ UNCHANGED apart

\* _load(path): [exit, pebbles]; exit is "none", "exit1" (_die) or an uncaught exception
load(f) ==
    LET r == read_text(f)
        raw == Strip(r.text)
        j == json_loads(raw)
    IN  IF ~f.ex THEN [exit |-> "none", pebbles |-> <<>>]
        ELSE IF r.err = "OSError" THEN [exit |-> "exit1", pebbles |-> <<>>]
        ELSE IF r.err # "none" THEN [exit |-> r.err, pebbles |-> <<>>]
        ELSE IF raw = <<>> THEN [exit |-> "none", pebbles |-> <<>>]
        ELSE IF j.err # "none" THEN [exit |-> "exit1", pebbles |-> <<>>]
        ELSE IF j.v.t # "list" THEN [exit |-> "exit1", pebbles |-> <<>>]
        ELSE [exit |-> "none", pebbles |-> PebblesOf(j.v.items)]

pebbles_load ==
    /\ tool = "pebbles"
    /\ pc = "load"
    /\ LET l == load(files[PRIMARY])
       IN  IF l.exit # "none"
           THEN /\ Done(l.exit)
                /\ clean' = FALSE
                /\ UNCHANGED << store, ret, faults >>
           ELSE /\ store' = PebbleStore(l.pebbles)
                /\ ret' = PebbleStore(l.pebbles)
                /\ pc' = "loaded"
                /\ UNCHANGED << outcome, at, clean, faults >>
    /\ UNCHANGED << tool, files, cmd, arg, cand, gen, newrec, payload, tmp, wctx, now,
                    uuids, budget, pre, wpre, hist, lastSave, wres >>
    /\ UNCHANGED << cp, other, turn >>
    /\ UNCHANGED apart

\* pebbles.append(_new_pebble(text))
AppendPebble(s, p) == PebbleStore(Append(s.items, p))

\* mutation of ClearConfirmed: the jar is emptied whatever the answer
ClearConfirmed_unasked(answer) == TRUE

\* answer = input(..).strip().lower(); answer in ("y", "yes")
ClearConfirmed(answer) == answer # EOF /\ PyLower(PyStrip(answer)) \in {"y", "yes"}

\* the handlers after _load returned: _cmd_add appends and saves, _cmd_clear
\* asks for confirmation and saves the empty list, the others only print
pebbles_after_load ==
    /\ tool = "pebbles"
    /\ pc = "loaded"
    /\ CASE cmd = "add" ->
              /\ newrec' = new_pebble(arg.text, now)
              /\ store' = AppendPebble(store, newrec')
              /\ payload' = PebblesText(store'.items)
              /\ wctx' = "save"
              /\ wpre' = files[PRIMARY]
              /\ pc' = "w_mkstemp"
              /\ UNCHANGED << outcome, at >>
         [] cmd = "clear" /\ store.items # <<>> /\ ClearConfirmed(arg.text) ->
              /\ store' = PebbleStore(<<>>)
              /\ payload' = PebblesText(<<>>)
              /\ wctx' = "save"
              /\ wpre' = files[PRIMARY]
              /\ pc' = "w_mkstemp"
              /\ UNCHANGED << newrec, outcome, at >>
         [] cmd = "clear" /\ store.items # <<>> /\ arg.text = EOF ->
              /\ Done("exit1")
              /\ UNCHANGED << newrec, store, payload, wctx, wpre >>
         [] OTHER ->
              /\ Done("returned")
              /\ UNCHANGED << newrec, store, payload, wctx, wpre >>
    /\ UNCHANGED << tool, files, cmd, arg, cand, gen, tmp, now, uuids, budget, pre, ret,
                    hist, clean, faults, lastSave, wres >>
    /\ UNCHANGED << cp, other, turn >>
    /\ UNCHANGED apart

-----------------------------------------------------------------------------
(* capsule and memory_jar: load, plain save, commands *)

ListStore(v) == [k |-> "json", v |-> v]

\* load_data / load_jar: [exit, v]; exit is "none" or an uncaught exception.
\* load_data returns the root only when it is a list, load_jar whatever it is.
load_list(program, f) ==
    LET r == read_text(f)
        j == json_loads(r.text)
    IN  IF ~f.ex THEN [exit |-> "none", v |-> JList(<<>>)]
        ELSE IF r.err = "OSError" THEN [exit |-> "none", v |-> JList(<<>>)]
        ELSE IF r.err # "none" THEN [exit |-> r.err, v |-> JNull]
        ELSE IF j.err # "none" THEN [exit |-> "none", v |-> JList(<<>>)]
        ELSE IF program = "capsule" /\ j.v.t # "list" THEN [exit |-> "none", v |-> JList(<<>>)]
        ELSE [exit |-> "none", v |-> j.v]

\* bool(v) is False
Falsy(v) ==
    \/ v.t = "null"
    \/ v.t = "list" /\ v.items = <<>>
    \/ v.t = "obj" /\ \A key \in DOMAIN v.f : v.f[key].t = "absent"
    \/ v.t = "str" /\ v.s = ""
    \/ v.t = "int" /\ v.n = 0
    \/ v.t = "bool" /\ ~v.b

\* the exception raised by reading entry[key] as a string, "none" when it works
FieldRaises(entry, key) ==
    IF entry.t # "obj" THEN "TypeError"
    ELSE IF entry.f[key].t = "absent" THEN "KeyError"
    ELSE IF entry.f[key].t # "str" THEN "TypeError"
    ELSE "none"

RECURSIVE FirstEntryRaise(_, _)
FirstEntryRaise(entries, keys) ==
    IF entries = <<>> THEN "none"
    ELSE IF \E key \in keys : FieldRaises(Head(entries), key) # "none"
         THEN FieldRaises(Head(entries),
                          CHOOSE key \in keys : FieldRaises(Head(entries), key) # "none")
    ELSE FirstEntryRaise(Tail(entries), keys)

\* list_messages of capsule: entry["created_at"] and entry["message"] of every entry
capsule_list(v) ==
    IF v.items = <<>> THEN "none" ELSE FirstEntryRaise(v.items, {"created_at", "message"})

\* what list_messages of capsule prints: for every entry, in the order of
\* enumerate(capsules, start=1), its number, its message and its created_at
list_messages(v) ==
    [i \in DOMAIN v.items |->
        [n |-> i, message |-> v.items[i].f.message.s,
         created_at |-> v.items[i].f.created_at.s]]

\* list_memories of memory_jar: m.get("date", ..) and m["text"] of every memory
jar_list(v) ==
    IF Falsy(v) THEN "none"
    ELSE IF v.t \in {"int", "float", "bool"} THEN "TypeError"
    ELSE IF v.t \in {"obj", "str"} THEN "AttributeError"
    ELSE IF \E i \in 1..Len(v.items) : v.items[i].t # "obj" THEN "AttributeError"
    ELSE FirstEntryRaise(v.items, {"text"})

\* what showing one entry of the capsule raises: entry["created_at"] goes to
\* datetime.fromisoformat, entry["message"] into the text printed
ShowRaises(entry) ==
    IF FieldRaises(entry, "created_at") # "none" THEN FieldRaises(entry, "created_at")
    ELSE IF entry.f.message.t = "absent" THEN "KeyError"
    ELSE "none"

\* open_random of capsule: random.choice(capsules) is any of the entries
capsule_open(v) ==
    IF v.items = <<>> THEN {"none"} ELSE {ShowRaises(v.items[i]) : i \in DOMAIN v.items}

\* open_oldest of capsule: min(capsules, key=..) reads c["created_at"] of
\* every entry and compares them; the entry it returns is one of the entries
capsule_oldest(v) ==
    IF v.items = <<>> THEN {"none"}
    ELSE IF FirstEntryRaise(v.items, {"created_at"}) # "none"
         THEN {FirstEntryRaise(v.items, {"created_at"})}
    ELSE {ShowRaises(v.items[i]) : i \in DOMAIN v.items}

\* what memory["text"] of format_memory raises
TextRaises(memory) ==
    IF memory.t # "obj" THEN "TypeError"
    ELSE IF memory.f.text.t = "absent" THEN "KeyError"
    ELSE "none"

\* random_memory of memory_jar: random.choice(memories), then format_memory
jar_random(v) ==
    IF Falsy(v) THEN {"none"}
    ELSE IF v.t \in {"int", "float", "bool", "str"} THEN {"TypeError"}
    ELSE IF v.t = "obj" THEN {"KeyError"}
    ELSE {TextRaises(v.items[i]) : i \in DOMAIN v.items}

\* today_memories of memory_jar: m.get("date") of every memory, then m["text"]
\* of those of today
jar_today(v, today) ==
    IF v.t \in {"null", "int", "float", "bool"} THEN "TypeError"
    ELSE IF v.t \in {"obj", "str"} THEN IF Falsy(v) THEN "none" ELSE "AttributeError"
    ELSE IF \E i \in DOMAIN v.items : v.items[i].t # "obj" THEN "AttributeError"
    ELSE IF \E i \in DOMAIN v.items : /\ v.items[i].f.date = JStr(today)
                                      /\ v.items[i].f.text.t = "absent"
         THEN "KeyError"
    ELSE "none"

\* what m["text"].lower() of search_memories raises
LowerRaises(memory) ==
    IF TextRaises(memory) # "none" THEN TextRaises(memory)
    ELSE IF memory.f.text.t # "str" THEN "AttributeError"
    ELSE "none"

RECURSIVE FirstLowerRaise(_)
FirstLowerRaise(memories) ==
    IF memories = <<>> THEN "none"
    ELSE IF LowerRaises(Head(memories)) # "none" THEN LowerRaises(Head(memories))
    ELSE FirstLowerRaise(Tail(memories))

\* search_memories of memory_jar: m["text"].lower() of every memory
jar_search(v) ==
    IF v.t \in {"null", "int", "float", "bool"} THEN "TypeError"
    ELSE IF v.t \in {"obj", "str"} THEN IF Falsy(v) THEN "none" ELSE "TypeError"
    ELSE FirstLowerRaise(v.items)

\* count_memories of memory_jar: len(memories)
jar_count(v) == IF v.t \in {"list", "obj", "str"} THEN "none" ELSE "TypeError"

\* the dict add_message / add_memory appends
new_note(program, text, clock) ==
    IF program = "capsule"
    THEN JObj([message |-> JStr(text), created_at |-> JStr(NowUtcIso(clock)),
               tags |-> JList(<<>>)])
    ELSE JObj([text |-> JStr(text), date |-> JStr(Today(clock)),
               timestamp |-> JStr(NowUtcIso(clock))])

NoteTexts == {"be kind", "slept well"}

\* main of capsule.py / memory_jar.py dispatching to add_message / add_memory
\* ("add"), list_messages / list_memories ("list"), open_random ("open"),
\* open_oldest ("oldest"), random_memory ("random"), today_memories ("today"),
\* search_memories ("search") or count_memories ("count"), up to the call of
\* load_data / load_jar; memory_jar add or search without a text prints the
\* usage and returns
list_cmd(command, text) ==
    /\ tool \in {"capsule", "memory_jar"}
    /\ command \in {"count", "random", "today", "search"} => tool = "memory_jar"
    /\ command \in {"open", "oldest"} => tool = "capsule"
    /\ text = None => tool = "memory_jar" /\ command \in {"add", "search"}
    /\ pc = "idle"
    /\ budget > 0
    /\ budget' = budget - 1
    /\ now' = now + 1
    /\ cmd' = command
    /\ arg' = [k |-> "list", text |-> text]
    /\ pre' = files
    /\ IF text = None
       THEN Done("returned")
       ELSE pc' = "load" /\ UNCHANGED << outcome, at >>
    /\ UNCHANGED << tool, files, cand, gen, store, newrec, payload, tmp, wctx, uuids,
                    wpre, ret, hist, clean, faults, lastSave, wres >>
    /\ UNCHANGED << cp, other, turn >>
    /\ out' = NoOut
    /\ UNCHANGED << pet, toy >>

\* load_data() / load_jar()
list_load ==
    /\ tool \in {"capsule", "memory_jar"}
    /\ pc = "load"
    /\ LET l == load_list(tool, files[PRIMARY])
       IN  IF l.exit # "none"
           THEN /\ Done(l.exit)
                /\ clean' = FALSE
                /\ UNCHANGED << store, ret, faults >>
           ELSE /\ store' = ListStore(l.v)
                /\ ret' = ListStore(l.v)
                /\ pc' = "loaded"
                /\ UNCHANGED << outcome, at, clean, faults >>
    /\ UNCHANGED << tool, files, cmd, arg, cand, gen, newrec, payload, tmp, wctx, now,
                    uuids, budget, pre, wpre, hist, lastSave, wres >>
    /\ UNCHANGED << cp, other, turn >>
    /\ UNCHANGED apart

\* the handlers after the load: add appends the new dict and saves
\* (memories.append raises AttributeError when the root is no list), the
\* others print, raising when an entry does not have the shape they read
list_after_load ==
    /\ tool \in {"capsule", "memory_jar"}
    /\ pc = "loaded"
    /\ \E raises \in
           CASE cmd = "add" -> {IF store.v.t = "list" THEN "none" ELSE "AttributeError"}
             [] cmd = "count" -> {jar_count(store.v)}
             [] cmd = "open" -> capsule_open(store.v)
             [] cmd = "oldest" -> capsule_oldest(store.v)
             [] cmd = "random" -> jar_random(store.v)
             [] cmd = "today" -> {jar_today(store.v, Today(now))}
             [] cmd = "search" -> {jar_search(store.v)}
             [] OTHER -> {IF tool = "capsule" THEN capsule_list(store.v)
                          ELSE jar_list(store.v)} :
           IF raises # "none"
           THEN /\ Done(raises)
                /\ UNCHANGED << newrec, store, payload, wpre >>
           ELSE IF cmd = "add"
           THEN /\ newrec' = new_note(tool, arg.text, now)
                /\ store' = ListStore(JList(Append(store.v.items, newrec')))
                /\ payload' = ListText(tool, store'.v.items)
                /\ wpre' = files[PRIMARY]
                /\ pc' = "s_open"
                /\ UNCHANGED << outcome, at >>
           ELSE /\ Done("returned")
                /\ UNCHANGED << newrec, store, payload, wpre >>
    /\ UNCHANGED << tool, files, cmd, arg, cand, gen, tmp, wctx, now, uuids, budget, pre,
                    ret, hist, clean, faults, lastSave, wres >>
    /\ UNCHANGED << cp, other, turn >>
    /\ out' = IF tool = "capsule" /\ cmd = "list" /\ capsule_list(store.v) = "none"
              THEN [k |-> "listing", lines |-> list_messages(store.v)]
              ELSE out
    /\ UNCHANGED << pet, toy >>

\* open(path, "w") of write_text / save_jar: the file is created, or truncated
\* keeping its permissions
Opened(f) == IF f.ex THEN [f EXCEPT !.data = <<>>] ELSE File(<<>>)

\* save_data / save_jar: open the data file itself for writing, or OSError
plain_open ==
    /\ pc = "s_open"
    /\ \/ /\ files' = [files EXCEPT ![PRIMARY] = Opened(@)]
          /\ pc' = "s_write"
          /\ UNCHANGED << outcome, at, clean, faults >>
       \/ /\ Fault
          /\ Done("OSError")
          /\ UNCHANGED files
    /\ UNCHANGED << tool, cmd, arg, cand, gen, store, newrec, payload, tmp, wctx, now,
                    uuids, budget, pre, wpre, ret, hist, lastSave, wres >>
    /\ UNCHANGED << cp, other, turn >>
    /\ UNCHANGED apart

\* save_data / save_jar: the next chunk reaches the data file, or OSError;
\* after the last chunk the command prints and returns
plain_write ==
    /\ pc = "s_write"
    /\ LET n == Len(files[PRIMARY].data) + 1
       IN  \/ /\ files' = [files EXCEPT ![PRIMARY].data = Append(@, payload[n])]
              /\ IF n = Len(payload)
                 THEN /\ Done("returned")
                      /\ hist' = Append(hist, payload)
                 ELSE UNCHANGED << pc, outcome, at, hist >>
              /\ NoFault
           \/ /\ Fault
              /\ Done("OSError")
              /\ UNCHANGED << files, hist >>
    /\ UNCHANGED << tool, cmd, arg, cand, gen, store, newrec, payload, tmp, wctx, now,
                    uuids, budget, pre, wpre, ret, lastSave, wres >>
    /\ UNCHANGED << cp, other, turn >>
    /\ UNCHANGED apart

-----------------------------------------------------------------------------
(* The environment *)

\* the process is killed (SIGKILL, power loss): nothing more runs, no handler
kill ==
    /\ pc \notin {"idle", "done"}
    /\ MayOrphan
    /\ Fault
    /\ Done("killed")
    /\ UNCHANGED << tool, files, cmd, arg, cand, gen, store, newrec, payload, tmp, wctx,
                    now, uuids, budget, pre, wpre, ret, hist, lastSave, wres >>
    /\ UNCHANGED << cp, other, turn >>
    /\ UNCHANGED apart

\* the process is gone; the next invocation starts from the directory alone
finish ==
    /\ pc = "done"
    /\ pc' = "idle"
    /\ cmd' = "none"
    /\ arg' = NoArg
    /\ cand' = 0
    /\ gen' = 0
    /\ store' = NoStore
    /\ newrec' = NoRec
    /\ payload' = <<>>
    /\ tmp' = 0
    /\ wctx' = "none"
    /\ outcome' = "none"
    /\ wres' = "none"
    /\ at' = "none"
    /\ ret' = NoStore
    /\ wpre' = NoFile
    /\ cp' = NoCopy
    /\ pre' = files
    /\ UNCHANGED << tool, files, now, uuids, budget, hist, clean, faults, lastSave,
                    other, turn >>
    /\ UNCHANGED apart

Next ==
    \/ \E args \in QuickArgs : cmd_quick_commit(args)
    \/ \E args \in QuickArgs, script \in Scripts : cmd_interactive(args, script)
    \/ cmd_read
    \/ load_store
    \/ corrupted_open
    \/ corrupted_data
    \/ after_load_store
    \/ rotate_backups
    \/ rotate_move
    \/ backup_open
    \/ backup_data
    \/ mkstemp
    \/ write_chunk
    \/ fsync
    \/ replace
    \/ cleanup
    \/ \E text \in PebbleTexts : pebbles_cmd("add", text)
    \/ \E line \in PebbleLines : pebbles_add_prompt(line)
    \/ pebbles_cmd("read", "")
    \/ \E answer \in ClearAnswers : pebbles_cmd("clear", answer)
    \/ pebbles_load
    \/ pebbles_after_load
    \/ \E text \in NoteTexts \cup {None} : list_cmd("add", text)
    \/ \E command \in {"list", "count", "open", "oldest", "random", "today"} :
           list_cmd(command, "")
    \/ \E query \in {None, "rest"} : list_cmd("search", query)
    \/ list_load
    \/ list_after_load
    \/ plain_open
    \/ plain_write
    \/ kill
    \/ finish

Spec == Init /\ [][Next]_vars

-----------------------------------------------------------------------------
(* Two invocations at the same time: the store file is shared by separate
   processes, and nothing but the atomic rename orders them. The variables of
   an invocation above are those of the process taking steps; those of the
   process waiting are kept in "other". *)

\* the variables of the process taking steps
Regs ==
    [pc |-> pc, cmd |-> cmd, arg |-> arg, cand |-> cand, gen |-> gen, store |-> store,
     newrec |-> newrec, payload |-> payload, tmp |-> tmp, wctx |-> wctx,
     outcome |-> outcome, pre |-> pre, wpre |-> wpre, ret |-> ret, wres |-> wres,
     at |-> at, cp |-> cp]

\* the operating system takes the processor from one process and gives it to
\* the other, between any two system calls
switch ==
    /\ other.pc \notin {"absent", "done"}
    /\ other' = Regs
    /\ pc' = other.pc
    /\ cmd' = other.cmd
    /\ arg' = other.arg
    /\ cand' = other.cand
    /\ gen' = other.gen
    /\ store' = other.store
    /\ newrec' = other.newrec
    /\ payload' = other.payload
    /\ tmp' = other.tmp
    /\ wctx' = other.wctx
    /\ outcome' = other.outcome
    /\ pre' = other.pre
    /\ wpre' = other.wpre
    /\ ret' = other.ret
    /\ wres' = other.wres
    /\ at' = other.at
    /\ cp' = other.cp
    /\ turn' = 3 - turn
    /\ UNCHANGED << tool, files, now, uuids, budget, faults, hist, clean, lastSave >>
    /\ UNCHANGED apart

\* the directories two invocations at the same time start from: nothing
\* stored yet, or a store in order with or without its backups
RaceDirs(program) ==
    IF program = "commit_your_day"
    THEN { EmptyDir,
           Dir(Good(1), NoFile, NoFile, NoFile),
           Dir(Good(1), Good(2), Good(3), Good(4)) }
    ELSE { EmptyDir, PebbleFile(File(PebblesText(<< OldPebble >>))) }

\* two processes of the same tool are started on a reliable machine
InitRace ==
    /\ tool \in {"commit_your_day", "pebbles"}
    /\ files \in RaceDirs(tool)
    /\ faults = 0
    /\ budget = MaxCmdsHostile
    /\ Locals
    /\ now = 0
    /\ uuids = 0
    /\ pre = files
    /\ hist = <<>>
    /\ clean = (files = EmptyDir)
    /\ lastSave = NoStore
    /\ other = [NoProc EXCEPT !.pc = "idle", !.pre = files]
    /\ turn = 1
    /\ out = NoOut
    /\ pet = NoPet
    /\ toy = NoToy

NextRace ==
    \/ \E args \in QuickArgs : cmd_quick_commit(args)
    \/ cmd_read
    \/ load_store
    \/ after_load_store
    \/ rotate_backups
    \/ rotate_move
    \/ backup_open
    \/ backup_data
    \/ mkstemp
    \/ write_chunk
    \/ fsync
    \/ replace
    \/ \E text \in PebbleTexts : pebbles_cmd("add", text)
    \/ pebbles_cmd("read", "")
    \/ pebbles_load
    \/ pebbles_after_load
    \/ switch

SpecRace == InitRace /\ [][NextRace]_vars

-----------------------------------------------------------------------------
(* commit_your_day: the commands that only compute, --stats and --summary,
   from the store that _load_store returned *)

TOP_THEMES_COUNT == 5
WEEK_DAYS == 7
HEATMAP_WEEKS == 15
HEATMAP_INTENSITY_LEVELS == 4
TAG_MOOD_MIN_OCCURRENCES == 2

MaxStatCommits == 3     \* records in the store a computing command is given

\* the days the clock may show: a Monday and a Thursday
StatTodays == {14, 17}

\* the days a date string of the model may name
Days == 0..30

\* datetime.strptime(s, "%Y-%m-%d").date(): the day, or ValueError
strptime(s) ==
    IF \E d \in Days : Today(d) = s
    THEN [err |-> "none", day |-> CHOOSE d \in Days : Today(d) = s]
    ELSE [err |-> "ValueError", day |-> 0]

\* date.weekday(): 0 for a Monday
weekday(d) == d % WEEK_DAYS

\* Python's order on the date strings of the model: the empty string first,
\* ISO dates in the order of their days, a text in letters after any digit
StrRank(s) == IF s = "" THEN 0 ELSE IF strptime(s).err = "none" THEN 1 ELSE 2

StrLe(a, b) ==
    \/ StrRank(a) < StrRank(b)
    \/ /\ StrRank(a) = StrRank(b)
       /\ StrRank(a) = 1 => strptime(a).day <= strptime(b).day

\* sorted(S, reverse=True)
RECURSIVE SortedDesc(_)
SortedDesc(S) ==
    IF S = {} THEN <<>>
    ELSE LET m == CHOOSE x \in S : \A y \in S : StrLe(y, x)
         IN  << m >> \o SortedDesc(S \ {m})

\* mutation of Adjacent: a gap between two dates does not end the streak
Adjacent_or_gap(prev, curr) == prev - curr >= 1

\* (prev - curr).days == 1
Adjacent(prev, curr) == prev - curr = 1

\* the loop of _compute_streak from index i on (i counts from 1 here)
RECURSIVE StreakFrom(_, _, _)
StreakFrom(unique_dates, i, streak) ==
    IF i > Len(unique_dates) THEN streak
    ELSE LET prev == strptime(unique_dates[i - 1])
             curr == strptime(unique_dates[i])
         IN  IF prev.err # "none" \/ curr.err # "none" THEN streak
             ELSE IF Adjacent(prev.day, curr.day)
                  THEN StreakFrom(unique_dates, i + 1, streak + 1)
                  ELSE streak

compute_streak(commits, today) ==
    LET unique_dates == SortedDesc({commits[i].commit_date : i \in DOMAIN commits})
    IN  IF commits = <<>> THEN 0
        ELSE IF unique_dates[1] \notin {Today(today), Today(today - 1)} THEN 0
        ELSE StreakFrom(unique_dates, 2, 1)

\* sys.float_info.max, brought down to the integers of the model: a stored
\* score above it stands for an integer literal of some hundreds of digits
float_max == 1000

Abs(n) == IF n < 0 THEN 0 - n ELSE n

\* a / b of Python on integers: a float, ZeroDivisionError, or OverflowError
\* when the quotient is too large for a float
Div(a, b) ==
    IF b = 0 THEN [err |-> "ZeroDivisionError", num |-> 0, den |-> 1]
    ELSE IF Abs(a) > float_max * b THEN [err |-> "OverflowError", num |-> 0, den |-> 1]
    ELSE [err |-> "none", num |-> a, den |-> b]

\* the float 0.0
Zero == [err |-> "none", num |-> 0, den |-> 1]

RECURSIVE SumOf(_, _)
SumOf(commits, field) ==
    IF commits = <<>> THEN 0
    ELSE Head(commits)[field] + SumOf(Tail(commits), field)

\* all_tags.extend(commit.tags) over the commits
RECURSIVE AllTags(_)
AllTags(commits) ==
    IF commits = <<>> THEN <<>> ELSE Head(commits).tags \o AllTags(Tail(commits))

Occurrences(seq, x) == Cardinality({i \in DOMAIN seq : seq[i] = x})

FirstAt(seq, x) == CHOOSE i \in DOMAIN seq : seq[i] = x /\ \A j \in 1..(i - 1) : seq[j] # x

\* Counter(seq).most_common(): the distinct elements, the most frequent
\* first, elements of equal count in the order they were first met
RECURSIVE Ranked(_, _)
Ranked(S, seq) ==
    IF S = {} THEN <<>>
    ELSE LET m == CHOOSE x \in S : \A y \in S :
                      \/ Occurrences(seq, x) > Occurrences(seq, y)
                      \/ /\ Occurrences(seq, x) = Occurrences(seq, y)
                         /\ FirstAt(seq, x) <= FirstAt(seq, y)
         IN  << [key |-> m, count |-> Occurrences(seq, m)] >> \o Ranked(S \ {m}, seq)

most_common(seq) == Ranked({seq[i] : i \in DOMAIN seq}, seq)

\* seq[:n]
FirstN(seq, n) == SubSeq(seq, 1, IF Len(seq) < n THEN Len(seq) ELSE n)

compute_tag_counts(commits) == most_common(AllTags(commits))

RECURSIVE TypesOf(_)
TypesOf(commits) ==
    IF commits = <<>> THEN <<>> ELSE << Head(commits).commit_type >> \o TypesOf(Tail(commits))

compute_type_distribution(commits) == most_common(TypesOf(commits))

week_stats(commits) ==
    IF commits = <<>> THEN [count |-> 0, mood_avg |-> Zero, energy_avg |-> Zero]
    ELSE [count |-> Len(commits),
          mood_avg |-> Div(SumOf(commits, "mood_score"), Len(commits)),
          energy_avg |-> Div(SumOf(commits, "energy_score"), Len(commits))]

compute_weekly_trend(commits, today) ==
    LET this_monday == today - weekday(today)
        last_monday == this_monday - WEEK_DAYS
        ThisWeek(c) == StrLe(Today(this_monday), c.commit_date) /\ StrLe(c.commit_date, Today(today))
        LastWeek(c) == /\ StrLe(Today(last_monday), c.commit_date)
                       /\ ~StrLe(Today(this_monday), c.commit_date)
    IN  [this_week |-> week_stats(SelectSeq(commits, ThisWeek)),
         last_week |-> week_stats(SelectSeq(commits, LastWeek))]

\* the loop of _compute_tag_mood_correlation over the top tags
RECURSIVE TagMoods(_, _)
TagMoods(top_tags, commits) ==
    IF top_tags = <<>> THEN <<>>
    ELSE LET tag == Head(top_tags).key
             Tagged(c) == \E k \in DOMAIN c.tags : c.tags[k] = tag
             tagged == SelectSeq(commits, Tagged)
             count == Len(tagged)
         IN  IF count < TAG_MOOD_MIN_OCCURRENCES THEN TagMoods(Tail(top_tags), commits)
             ELSE << [tag |-> tag, avg_mood |-> Div(SumOf(tagged, "mood_score"), count),
                      count |-> count] >> \o TagMoods(Tail(top_tags), commits)

compute_tag_mood_correlation(commits) ==
    TagMoods(FirstN(compute_tag_counts(commits), TOP_THEMES_COUNT), commits)

\* _build_heatmap_grid: the count of each day of the last HEATMAP_WEEKS
\* weeks, -1 for the days to come
build_heatmap_grid(commits, today) ==
    LET start_monday == (today - weekday(today)) - WEEK_DAYS * (HEATMAP_WEEKS - 1)
    IN  [day_offset \in 0..(WEEK_DAYS - 1) |->
            [week_idx \in 0..(HEATMAP_WEEKS - 1) |->
                LET cell_date == start_monday + WEEK_DAYS * week_idx + day_offset
                IN  IF cell_date > today THEN 0 - 1
                    ELSE Cardinality({i \in DOMAIN commits :
                                          commits[i].commit_date = Today(cell_date)})]]

\* _intensity_char: the index into the heatmap characters, -1 for a blank
intensity_char(count) ==
    IF count < 0 THEN 0 - 1
    ELSE IF count < HEATMAP_INTENSITY_LEVELS - 1 THEN count
    ELSE HEATMAP_INTENSITY_LEVELS - 1

render_heatmap(grid) ==
    [day_idx \in DOMAIN grid |->
        [week_idx \in DOMAIN grid[day_idx] |-> intensity_char(grid[day_idx][week_idx])]]

\* what _cmd_stats works out and prints
stats(commits, today) ==
    [k |-> "stats",
     total |-> Len(commits),
     streak |-> compute_streak(commits, today),
     mood_avg |-> Div(SumOf(commits, "mood_score"), Len(commits)),
     energy_avg |-> Div(SumOf(commits, "energy_score"), Len(commits)),
     top_tags |-> FirstN(compute_tag_counts(commits), TOP_THEMES_COUNT),
     types |-> compute_type_distribution(commits),
     trend |-> compute_weekly_trend(commits, today),
     correlations |-> compute_tag_mood_correlation(commits),
     heatmap |-> render_heatmap(build_heatmap_grid(commits, today))]

\* what _display_summary works out and prints
display_summary(commits) ==
    [k |-> "summary",
     total |-> Len(commits),
     top_themes |-> FirstN(compute_tag_counts(commits), TOP_THEMES_COUNT),
     mood_avg |-> Div(SumOf(commits, "mood_score"), Len(commits)),
     energy_avg |-> Div(SumOf(commits, "energy_score"), Len(commits))]

\* the divisions a command made
Quotients(o) ==
    IF o.k = "stats"
    THEN {o.mood_avg, o.energy_avg, o.trend.this_week.mood_avg,
          o.trend.this_week.energy_avg, o.trend.last_week.mood_avg,
          o.trend.last_week.energy_avg}
         \cup {o.correlations[i].avg_mood : i \in DOMAIN o.correlations}
    ELSE IF o.k = "summary" THEN {o.mood_avg, o.energy_avg}
    ELSE {}

\* how the command ends: an exception of a division is not caught (a
\* command makes no two divisions that fail differently)
Ending(o) ==
    IF \E q \in Quotients(o) : q.err # "none"
    THEN (CHOOSE q \in Quotients(o) : q.err # "none").err
    ELSE "returned"

\* _cmd_stats after _load_store returned
cmd_stats ==
    /\ tool = "commit_your_day"
    /\ pc = "loaded"
    /\ cmd = "stats"
    /\ out' = IF store.commits = <<>> THEN [k |-> "no commits"]
              ELSE stats(store.commits, now)
    /\ Done(Ending(out'))
    /\ UNCHANGED << tool, files, cmd, arg, cand, gen, store, newrec, payload, tmp, wctx,
                    now, uuids, budget, faults, pre, wpre, ret, hist, clean, lastSave,
                    wres, cp, other, turn >>
    /\ UNCHANGED << pet, toy >>

\* _cmd_summary after _load_store returned: the commits since a week ago
cmd_summary ==
    /\ tool = "commit_your_day"
    /\ pc = "loaded"
    /\ cmd = "summary"
    /\ LET cutoff == Today(now - WEEK_DAYS)
           Recent(c) == StrLe(cutoff, c.commit_date)
           filtered == SelectSeq(store.commits, Recent)
       IN  out' = IF filtered = <<>> THEN [k |-> "no commits"]
                  ELSE display_summary(filtered)
    /\ Done(Ending(out'))
    /\ UNCHANGED << tool, files, cmd, arg, cand, gen, store, newrec, payload, tmp, wctx,
                    now, uuids, budget, faults, pre, wpre, ret, hist, clean, lastSave,
                    wres, cp, other, turn >>
    /\ UNCHANGED << pet, toy >>

\* a stored record of the given date
StatCommit(n, commit_date, tags, mood, energy) ==
    [OldCommit(n) EXCEPT !.commit_date = commit_date, !.tags = tags,
                         !.mood_score = mood, !.energy_score = energy]

\* the records a store may hold on the day the command runs: of that day, of
\* the days before, of the week before, of the day after (the clock was set
\* back), records whose date is missing or is not a date, and a record whose
\* score is an integer beyond the floats
StatCommits(today) ==
    { StatCommit(1, Today(today), << "a", "b" >>, 2, 5),
      StatCommit(2, Today(today - 1), << "a" >>, 0 - 2, 1),
      StatCommit(3, Today(today - 2), << >>, 0, 3),
      StatCommit(4, Today(today - 3), << "b" >>, 1, 4),
      StatCommit(5, Today(today - 8), << "a" >>, 99, 0),
      StatCommit(9, Today(today - 1), << "c" >>, 5 * float_max, 3),
      StatCommit(6, Today(today + 1), << "c" >>, 1, 2),
      StatCommit(7, "", << "a" >>, 0, 3),
      StatCommit(8, "someday", << "b", "b" >>, 0 - 1, 3) }

SeqsUpTo(S, n) == UNION {[1..k -> S] : k \in 0..n}

\* _load_store has returned a store; --stats or --summary goes on from it
InitStats ==
    /\ tool = "commit_your_day"
    /\ files = EmptyDir
    /\ now \in StatTodays
    /\ cmd \in {"stats", "summary"}
    /\ pc = "loaded"
    /\ store \in {CommitStore(SCHEMA_VERSION, "", commits) :
                      commits \in SeqsUpTo(StatCommits(now), MaxStatCommits)}
    /\ ret = store
    /\ arg = NoArg
    /\ cand = 0
    /\ gen = 0
    /\ newrec = NoRec
    /\ payload = <<>>
    /\ tmp = 0
    /\ wctx = "none"
    /\ outcome = "none"
    /\ wres = "none"
    /\ at = "none"
    /\ wpre = NoFile
    /\ cp = NoCopy
    /\ uuids = 0
    /\ budget = 0
    /\ faults = 0
    /\ pre = files
    /\ hist = <<>>
    /\ clean = FALSE
    /\ lastSave = NoStore
    /\ other = NoProc
    /\ turn = 1
    /\ out = NoOut
    /\ pet = NoPet
    /\ toy = NoToy

NextStats ==
    \/ cmd_stats
    \/ cmd_summary

SpecStats == InitStats /\ [][NextStats]_vars

-----------------------------------------------------------------------------
(* buddy: the pocket pet                                                   *)
(*                                                                         *)
(* The monotonic clock is counted in ticks of a twentieth of a second, so  *)
(* that the frame interval of 0.15 s and the greeting's pause of 1.5 s are *)
(* whole numbers.                                                          *)

TicksPerSecond == 20
MIN_DURATION_SECONDS == 5
MAX_DURATION_SECONDS == 120
FRAME_INTERVAL_TICKS == 3
GREETING_PAUSE_TICKS == 30
ACTION_HOLD_FRAMES == 12
BLINK_HOLD_FRAMES == 3

\* how many ticks longer than asked a time.sleep may take
MaxJitter == 1
\* how many times Ctrl+C is pressed during one run
MaxSigint == 1

Moods == {"happy", "chill", "sleepy"}
Actions == {"idle", "blink", "wiggle", "bounce", "doze"}

\* _MOOD_WEIGHTS: the (action, weight) entries of each mood
MOOD_WEIGHTS(mood) ==
    CASE mood = "happy"  -> << << "idle", 3 >>, << "blink", 3 >>,
                               << "wiggle", 3 >>, << "bounce", 2 >> >>
      [] mood = "chill"  -> << << "idle", 5 >>, << "blink", 3 >>, << "wiggle", 1 >> >>
      [] mood = "sleepy" -> << << "idle", 3 >>, << "blink", 2 >>, << "doze", 4 >> >>

Repeat(x, n) == [i \in 1..n |-> x]

idle_frames == << "IDLE" >>
blink_frames == Repeat("BLINK", BLINK_HOLD_FRAMES) \o << "IDLE" >>
wiggle_frames == << "WIGGLE_LEFT", "IDLE", "WIGGLE_RIGHT", "IDLE", "WIGGLE_LEFT", "IDLE" >>
bounce_frames == << "BOUNCE_UP", "BOUNCE_DOWN", "BOUNCE_UP", "IDLE" >>
doze_frames == << "DOZE", "DOZE", "DOZE_DEEP", "DOZE_DEEP", "DOZE", "BLINK" >>

ACTION_FRAMES(action) ==
    CASE action = "idle"   -> idle_frames
      [] action = "blink"  -> blink_frames
      [] action = "wiggle" -> wiggle_frames
      [] action = "bounce" -> bounce_frames
      [] action = "doze"   -> doze_frames

\* itertools.accumulate(weights): the running totals
RECURSIVE SumTo(_, _)
SumTo(weights, i) == IF i = 0 THEN 0 ELSE SumTo(weights, i - 1) + weights[i]

\* random.choices(population, weights, k=1)[0], r standing for the whole part
\* of random() * total: bisect finds the first running total above the draw
choices(population, weights, r) ==
    population[CHOOSE i \in DOMAIN population :
                   /\ SumTo(weights, i) > r
                   /\ \A j \in 1..(i - 1) : SumTo(weights, j) <= r]

\* the actions choose_action can return, one for each value of the draw
choose_action_any(mood) == Actions
choose_action(mood) ==
    LET entries == MOOD_WEIGHTS(mood)
        actions == [i \in DOMAIN entries |-> entries[i][1]]
        weights == [i \in DOMAIN entries |-> entries[i][2]]
        total   == SumTo(weights, Len(weights))
    IN  {choices(actions, weights, r) : r \in 0..(total - 1)}

\* int(value) of the --duration argument
DurationArgs == {"abc", "1", "5", "6"}
MoodArgs == {"happy", "chill", "sleepy", "grumpy"}
int(value) ==
    CASE value = "1" -> [err |-> "none", n |-> 1]
      [] value = "5" -> [err |-> "none", n |-> 5]
      [] value = "6" -> [err |-> "none", n |-> 6]
      [] value = "7" -> [err |-> "none", n |-> 7]
      [] OTHER       -> [err |-> "ValueError", n |-> 0]

Max(a, b) == IF a >= b THEN a ELSE b
Min(a, b) == IF a <= b THEN a ELSE b

clamped_duration(value) ==
    LET parsed == int(value)
    IN  IF parsed.err # "none"
        THEN [err |-> "ArgumentTypeError", n |-> 0]
        ELSE [err |-> "none",
              n |-> Max(MIN_DURATION_SECONDS, Min(parsed.n, MAX_DURATION_SECONDS))]

\* the positions of main at which a pending KeyboardInterrupt is raised inside
\* the try block
InTry_greeting == {"greeting", "pause"}
InTry == {"greeting", "pause", "animation", "loop"}

\* parse_args: argparse rejects a mood that is no choice and a duration that
\* is no integer, and the program exits with status 2
parse_args ==
    /\ pet.pc = "start"
    /\ LET d == clamped_duration(pet.args[2])
       IN  IF pet.args[1] \notin Moods \/ d.err # "none"
           THEN pet' = [pet EXCEPT !.pc = "done", !.exit = "exit2"]
           ELSE pet' = [pet EXCEPT !.pc = "hide", !.mood = pet.args[1],
                                   !.duration = d.n]
    /\ UNCHANGED << vars_store, out, toy >>

\* _hide_cursor
hide_cursor ==
    /\ pet.pc = "hide"
    /\ pet' = [pet EXCEPT !.pc = "greeting", !.cursor = "hidden", !.hid = TRUE]
    /\ UNCHANGED << vars_store, out, toy >>

\* print_greeting, up to its pause
print_greeting ==
    /\ pet.pc = "greeting"
    /\ pet' = [pet EXCEPT !.pc = "pause", !.art = "greeting"]
    /\ UNCHANGED << vars_store, out, toy >>

\* the time.sleep(1.5) that ends print_greeting
greeting_pause ==
    /\ pet.pc = "pause"
    /\ \E jitter \in 0..MaxJitter :
           pet' = [pet EXCEPT !.pc = "animation",
                              !.clock = @ + GREETING_PAUSE_TICKS + jitter]
    /\ UNCHANGED << vars_store, out, toy >>

\* run_animation, up to its loop
run_animation ==
    /\ pet.pc = "animation"
    /\ pet' = [pet EXCEPT !.pc = "loop",
                          !.started = pet.clock,
                          !.deadline = pet.clock + pet.duration * TicksPerSecond,
                          !.frames_in_action = 0,
                          !.current_action = "idle",
                          !.frame_index = 0]
    /\ UNCHANGED << vars_store, out, toy >>

\* one turn of the loop of run_animation: the clock is before the deadline, an
\* action is chosen when the last one was held long enough, one frame is
\* rendered, and the loop sleeps for a frame interval
animation_frame ==
    /\ pet.pc = "loop"
    /\ pet.clock < pet.deadline
    /\ \E action \in IF pet.frames_in_action >= ACTION_HOLD_FRAMES
                     THEN choose_action(pet.mood)
                     ELSE {pet.current_action},
          jitter \in 0..MaxJitter :
           LET choosing    == pet.frames_in_action >= ACTION_HOLD_FRAMES
               frame_index == IF choosing THEN 0 ELSE pet.frame_index
               frames      == ACTION_FRAMES(action)
               frame_art   == frames[(frame_index % Len(frames)) + 1]
           IN  pet' = [pet EXCEPT
                          !.current_action = action,
                          !.chosen = @ \/ choosing,
                          !.last = IF choosing THEN pet.current_action ELSE @,
                          !.rested = IF choosing THEN pet.idle_shown ELSE @,
                          !.idle_shown = IF choosing THEN frame_art = "IDLE"
                                         ELSE @ \/ frame_art = "IDLE",
                          !.art = frame_art,
                          !.frame_index = frame_index + 1,
                          !.frames_in_action = IF choosing THEN 1 ELSE @ + 1,
                          !.clock = @ + FRAME_INTERVAL_TICKS + jitter]
    /\ UNCHANGED << vars_store, out, toy >>

\* the loop of run_animation ends: the clock has reached the deadline
animation_over ==
    /\ pet.pc = "loop"
    /\ pet.clock >= pet.deadline
    /\ pet' = [pet EXCEPT !.pc = "finally"]
    /\ UNCHANGED << vars_store, out, toy >>

\* Ctrl+C: the KeyboardInterrupt is raised where main is; inside the try
\* block it is caught and the finally block runs, anywhere else it ends
\* the process with a traceback.  Pressed while _hide_cursor is flushing, it
\* is raised either there, outside the try block, or at the call of
\* print_greeting, inside it.
ctrl_c ==
    /\ pet.pc \notin {"absent", "done"}
    /\ Len(pet.sigint) < MaxSigint
    /\ \/ /\ pet.pc \in InTry
          /\ pet' = [pet EXCEPT !.pc = "finally", !.sigint = Append(@, pet.pc)]
       \/ /\ pet.pc \notin InTry \/ pet.pc = "greeting"
          /\ pet' = [pet EXCEPT !.pc = "done", !.exit = "KeyboardInterrupt",
                                !.sigint = Append(@, IF pet.pc = "greeting"
                                                     THEN "hide" ELSE pet.pc)]
    /\ UNCHANGED << vars_store, out, toy >>

\* _show_cursor in the finally block of main
show_cursor ==
    /\ pet.pc = "finally"
    /\ pet' = [pet EXCEPT !.pc = "goodbye", !.cursor = "shown"]
    /\ UNCHANGED << vars_store, out, toy >>

\* print_goodbye, and main returns
print_goodbye ==
    /\ pet.pc = "goodbye"
    /\ pet' = [pet EXCEPT !.pc = "done", !.goodbye = TRUE, !.art = "goodbye",
                          !.exit = "returned"]
    /\ UNCHANGED << vars_store, out, toy >>

\* no store is kept by the program that runs
NoStoreRun(program) ==
    /\ tool = program
    /\ files = EmptyDir
    /\ Locals
    /\ now = 0
    /\ uuids = 0
    /\ budget = 0
    /\ faults = 0
    /\ pre = files
    /\ hist = <<>>
    /\ clean = FALSE
    /\ lastSave = NoStore
    /\ other = NoProc
    /\ turn = 1

InitBuddy ==
    /\ NoStoreRun("buddy")
    /\ out = NoOut
    /\ pet \in {[NoPet EXCEPT !.pc = "start", !.args = << m, d >>] :
                    m \in MoodArgs, d \in DurationArgs}
    /\ toy = NoToy

NextBuddy ==
    \/ parse_args
    \/ hide_cursor
    \/ print_greeting
    \/ greeting_pause
    \/ run_animation
    \/ animation_frame
    \/ animation_over
    \/ ctrl_c
    \/ show_cursor
    \/ print_goodbye

\* every step of main is taken in the end: the interpreter keeps running,
\* and a sleep returns
SpecBuddy == InitBuddy /\ [][NextBuddy]_vars /\ WF_vars(NextBuddy)

-----------------------------------------------------------------------------
(* toybox and pocket_poet: the programs that draw from a seeded generator  *)
(*                                                                         *)
(* Each program is run twice with the same arguments, so that what the     *)
(* second run prints can be compared with what the first one printed.      *)

\* the largest --seed tried
MaxSeed == 2
\* the values the operating system's entropy may seed a generator with
MaxEntropy == 1

EXIT_SUCCESS == 0
EXIT_FAILURE == 1

ENCOURAGEMENTS == [i \in 1..8 |-> << "encouragement", i >>]

Difficulties == {"gentle", "medium", "strange"}
ALL_CATEGORIES == << "code", "creative", "experiment", "philosophical", "wild" >>
VALID_CATEGORIES == {ALL_CATEGORIES[i] : i \in DOMAIN ALL_CATEGORIES}
VALID_DIFFICULTIES == Difficulties

Constraint(text, difficulty) == [text |-> text, difficulty |-> difficulty]

\* every pool lists nine gentle, eight medium and eight strange constraints,
\* in this order; a text stands as the category and its place in the pool
CONSTRAINT_POOLS(category) ==
    [i \in 1..25 |-> Constraint(<< category, i >>,
                                IF i <= 9 THEN "gentle"
                                ELSE IF i <= 17 THEN "medium" ELSE "strange")]

\* random.Random(seed): the generator is seeded with the seed, or with the
\* system's entropy when there is none, and has produced nothing yet
random_Random_unseeded(seed, entropy) == [by |-> "entropy", n |-> entropy, pos |-> 0]
random_Random(seed, entropy) ==
    IF seed = << >>
    THEN [by |-> "entropy", n |-> entropy, pos |-> 0]
    ELSE [by |-> "seed", n |-> seed[1], pos |-> 0]

\* the 8-bit word the generator produces at a position: a fixed function of
\* what it was seeded with
Word(g) ==
    LET a == 2 * g.n + 1
        c == IF g.by = "seed" THEN g.n ELSE 3 * g.n + 7
    IN  (a * (g.pos + 5) + c) % 256

RECURSIVE Pow2(_)
Pow2(k) == IF k = 0 THEN 1 ELSE 2 * Pow2(k - 1)

\* int.bit_length
bit_length(n) == CHOOSE k \in 0..8 : n < Pow2(k) /\ (k = 0 \/ n >= Pow2(k - 1))

getrandbits(g, k) == [value |-> Word(g) % Pow2(k), g |-> [g EXCEPT !.pos = @ + 1]]

\* Random._randbelow: draw bit_length(n) bits until the value is below n
RECURSIVE randbelow(_, _)
randbelow(g, n) ==
    LET r == getrandbits(g, bit_length(n))
    IN  IF r.value < n THEN r ELSE randbelow(r.g, n)

\* Random.choice
choice(g, seq) ==
    IF Len(seq) = 0
    THEN [err |-> "IndexError", value |-> << >>, g |-> g]
    ELSE LET r == randbelow(g, Len(seq))
         IN  [err |-> "none", value |-> << seq[r.value + 1] >>, g |-> r.g]

\* Random.sample of a population of at most 21 members: the member drawn is
\* replaced in the pool by the last one not yet drawn
RECURSIVE sample_from(_, _, _, _)
sample_from(g, pool, k, result) ==
    IF Len(result) = k
    THEN [value |-> result, g |-> g]
    ELSE LET left == Len(pool) - Len(result)
             r    == randbelow(g, left)
         IN  sample_from(r.g, [pool EXCEPT ![r.value + 1] = pool[left]], k,
                         Append(result, pool[r.value + 1]))

sample(g, population, k) == sample_from(g, population, k, << >>)

\* the difficulty filter of select_constraint
Filter_none(pool, difficulty) == pool
Filter(pool, difficulty) ==
    IF difficulty # None
    THEN SelectSeq(pool, LAMBDA c : c.difficulty = difficulty)
    ELSE pool

select_constraint(category, difficulty, rng) ==
    LET drawn  == IF category # None
                  THEN [err |-> "none", value |-> << category >>, g |-> rng]
                  ELSE choice(rng, ALL_CATEGORIES)
        pool   == Filter(CONSTRAINT_POOLS(drawn.value[1]), difficulty)
        picked == choice(drawn.g, pool)
    IN  [err |-> picked.err, value |-> picked.value, g |-> picked.g,
         chosen_category |-> drawn.value[1], pool |-> pool]

\* format_output: the text printed, as the constraint's text and the
\* encouragement between the fixed lines
format_output(constraint, rng) ==
    LET encouragement == choice(rng, ENCOURAGEMENTS)
    IN  [value |-> [text |-> constraint.text, encouragement |-> encouragement.value[1]],
         g |-> encouragement.g]

MIN_LINES == 5
MAX_LINES == 6
DEFAULT_LINES == 5

\* the word banks, a word standing as the bank and its place in it
Bank(name, size) == [i \in 1..size |-> << name, i >>]
NOUNS == Bank("NOUNS", 27)
ADJECTIVES == Bank("ADJECTIVES", 19)
VERBS == Bank("VERBS", 17)
INFINITIVES == Bank("INFINITIVES", 17)
PLACES == Bank("PLACES", 10)

BANK_MAP(placeholder) ==
    CASE placeholder = "adj"   -> ADJECTIVES
      [] placeholder = "adj2"  -> ADJECTIVES
      [] placeholder = "noun"  -> NOUNS
      [] placeholder = "noun2" -> NOUNS
      [] placeholder = "verb"  -> VERBS
      [] placeholder = "inf"   -> INFINITIVES
      [] placeholder = "place" -> PLACES

\* the line templates, a template standing as its place in the list and the
\* placeholders it holds, from left to right
LINE_TEMPLATES ==
    << << 1, << "adj", "noun", "verb" >> >>,
       << 2, << "adj", "noun", "verb", "place" >> >>,
       << 3, << "noun", "verb", "noun2" >> >>,
       << 4, << "noun", "verb" >> >>,
       << 5, << "noun", "adj", "noun2" >> >>,
       << 6, << "noun", "inf" >> >>,
       << 7, << "noun", "inf" >> >>,
       << 8, << "adj", "verb" >> >>,
       << 9, << "noun", "place" >> >>,
       << 10, << "adj", "verb" >> >>,
       << 11, << "inf" >> >>,
       << 12, << "noun" >> >>,
       << 13, << "adj", "inf" >> >>,
       << 14, << "adj", "noun" >> >>,
       << 15, << "noun", "verb" >> >>,
       << 16, << "adj", "inf" >> >>,
       << 17, << "adj", "noun", "adj2", "noun2" >> >>,
       << 18, << "verb" >> >>,
       << 19, << "noun", "verb" >> >>,
       << 20, << "adj", "noun" >> >> >>

pick(rng, bank) == choice(rng, bank)

\* _render_line: every placeholder, from left to right, is replaced by a word
\* picked from its bank
RECURSIVE substitute(_, _, _)
substitute(g, placeholders, words) ==
    IF Len(words) = Len(placeholders)
    THEN [value |-> words, g |-> g]
    ELSE LET w == pick(g, BANK_MAP(placeholders[Len(words) + 1]))
         IN  substitute(w.g, placeholders, Append(words, w.value[1]))

render_line(rng, template) ==
    LET line == substitute(rng, template[2], << >>)
    IN  [value |-> [template |-> template[1], words |-> line.value], g |-> line.g]

RECURSIVE render_lines(_, _, _)
render_lines(g, templates, lines) ==
    IF Len(lines) = Len(templates)
    THEN [value |-> lines, g |-> g]
    ELSE LET l == render_line(g, templates[Len(lines) + 1])
         IN  render_lines(l.g, templates, Append(lines, l.value))

generate_poem(rng, line_count) ==
    LET templates == sample(rng, LINE_TEMPLATES, line_count)
    IN  render_lines(templates.g, templates.value, << >>)

Seeds == {<< >>} \cup {<< n >> : n \in 0..MaxSeed}
Entropy == 0..MaxEntropy
CategoryArgs == {None, "poetry"} \cup VALID_CATEGORIES
DifficultyArgs == {None, "hard"} \cup VALID_DIFFICULTIES
LinesArgs == {None, "5", "6", "7"}

\* one run of the program has come to its end
ToyDone(result, exit) ==
    toy' = [toy EXCEPT !.pc = "done", !.result = result, !.exit = exit]

\* toybox main, up to the selection
toybox_main ==
    /\ toy.program = "toybox"
    /\ toy.pc = "start"
    /\ IF toy.args.category # None /\ toy.args.category \notin VALID_CATEGORIES
       THEN ToyDone(<< >>, EXIT_FAILURE)
       ELSE IF toy.args.difficulty # None /\ toy.args.difficulty \notin VALID_DIFFICULTIES
       THEN ToyDone(<< >>, EXIT_FAILURE)
       ELSE \E entropy \in Entropy :
                toy' = [toy EXCEPT !.pc = "select",
                                   !.rng = random_Random(toy.args.seed, entropy)]
    /\ UNCHANGED << vars_store, out, pet >>

\* select_constraint as main calls it
toybox_select ==
    /\ toy.program = "toybox"
    /\ toy.pc = "select"
    /\ LET s == select_constraint(toy.args.category, toy.args.difficulty, toy.rng)
       IN  IF s.err # "none"
           THEN toy' = [toy EXCEPT !.pc = "done", !.err = s.err, !.exit = 1,
                                   !.rng = s.g,
                                   !.chosen_category = s.chosen_category,
                                   !.pool = s.pool]
           ELSE toy' = [toy EXCEPT !.pc = "format", !.rng = s.g,
                                   !.chosen_category = s.chosen_category,
                                   !.pool = s.pool,
                                   !.constraint = s.value]
    /\ UNCHANGED << vars_store, out, pet >>

\* the formatted constraint is written, and main returns
toybox_format ==
    /\ toy.program = "toybox"
    /\ toy.pc = "format"
    /\ LET f == format_output(toy.constraint[1], toy.rng)
       IN  toy' = [toy EXCEPT !.pc = "done", !.rng = f.g, !.result = << f.value >>,
                              !.exit = EXIT_SUCCESS]
    /\ UNCHANGED << vars_store, out, pet >>

\* pocket_poet main, up to the poem: argparse rejects a line count that is no
\* choice, and the program exits with status 2
poet_main ==
    /\ toy.program = "pocket_poet"
    /\ toy.pc = "start"
    /\ LET lines == IF toy.args.lines = None THEN DEFAULT_LINES
                    ELSE int(toy.args.lines).n
       IN  IF lines \notin MIN_LINES..MAX_LINES
           THEN ToyDone(<< >>, 2)
           ELSE \E entropy \in Entropy :
                    toy' = [toy EXCEPT !.pc = "generate", !.lines = lines,
                                       !.rng = random_Random(toy.args.seed, entropy)]
    /\ UNCHANGED << vars_store, out, pet >>

\* the poem is generated and printed, and main returns
poet_generate ==
    /\ toy.program = "pocket_poet"
    /\ toy.pc = "generate"
    /\ LET poem == generate_poem(toy.rng, toy.lines)
       IN  toy' = [toy EXCEPT !.pc = "done", !.rng = poem.g,
                              !.result = << poem.value >>, !.exit = EXIT_SUCCESS]
    /\ UNCHANGED << vars_store, out, pet >>

\* the program is started once more with the same arguments
run_again ==
    /\ toy.pc = "done"
    /\ toy.run = 1
    /\ toy' = [NoToy EXCEPT !.program = toy.program, !.args = toy.args,
                            !.pc = "start", !.run = 2,
                            !.first = [result |-> toy.result, exit |-> toy.exit,
                                       rng |-> toy.rng]]
    /\ UNCHANGED << vars_store, out, pet >>

InitToys ==
    /\ NoStoreRun("toys")
    /\ out = NoOut
    /\ pet = NoPet
    /\ \/ toy \in {[NoToy EXCEPT !.program = "toybox", !.pc = "start", !.run = 1,
                                 !.args = [category |-> c, difficulty |-> d,
                                           seed |-> s, lines |-> None]] :
                       c \in CategoryArgs, d \in DifficultyArgs, s \in Seeds}
       \/ toy \in {[NoToy EXCEPT !.program = "pocket_poet", !.pc = "start", !.run = 1,
                                 !.args = [category |-> None, difficulty |-> None,
                                           seed |-> s, lines |-> l]] :
                       s \in Seeds, l \in LinesArgs}

NextToys ==
    \/ toybox_main
    \/ toybox_select
    \/ toybox_format
    \/ poet_main
    \/ poet_generate
    \/ run_again

SpecToys == InitToys /\ [][NextToys]_vars

-----------------------------------------------------------------------------
(* Vocabulary of the properties *)

Generations == 1..MAX_BACKUPS

\* the invocation ended inside the load, and not by a kill
LoadRaised == pc = "done" /\ at = "load" /\ outcome # "killed"

\* json.loads accepts the file and its root is an object
ParsesAsObject(f) ==
    /\ f.ex
    /\ read_text(f).err = "none"
    /\ json_loads(read_text(f).text).err = "none"
    /\ json_loads(read_text(f).text).v.t = "obj"

\* the file is there and readable, but is not JSON or its root is not an object
Unparsable(f) ==
    /\ f.ex
    /\ read_text(f).err = "none"
    /\ ~ParsesAsObject(f)

FirstGoodBackup(dir) ==
    CHOOSE g \in Generations :
        /\ ParsesAsObject(dir[backup_path(g)])
        /\ \A h \in Generations : h < g => ~ParsesAsObject(dir[backup_path(h)])

IsFreshStore(s) ==
    /\ s.version = SCHEMA_VERSION
    /\ s.created_at = NowUtcIso(now)
    /\ s.commits = <<>>

\* the records a load of this directory yields from the primary file alone
Records(dir) ==
    IF tool = "pebbles" THEN load(dir[PRIMARY]).pebbles
    ELSE IF Examine(dir[PRIMARY]).act = "store" THEN Built(dir[PRIMARY]).commits
    ELSE <<>>

\* the store the add command works on is in order: the primary file loads,
\* or nothing has been stored yet
Healthy(dir) ==
    IF tool = "pebbles" THEN load(dir[PRIMARY]).exit = "none"
    ELSE \/ Examine(dir[PRIMARY]).act = "store"
         \/ \A i \in {PRIMARY} \cup Generations : ~dir[i].ex

InRotation(p) == p \in {"rotate", "rot_move", "bak_open", "bak_data"}

-----------------------------------------------------------------------------
(* Properties *)

\* C1: from the start of a save to the end of the invocation, kill included,
\* the target file holds either its content from before the save or the
\* complete payload; a kill after the temp file is complete and before the
\* rename leaves the target as it was.
C1_AtomicSave ==
    /\ wctx # "none" => files[PRIMARY] \in {wpre, File(payload)}
    /\ outcome = "killed" /\ at \in {"w_write", "w_fsync", "w_replace"} => files[PRIMARY] = wpre

C1_Witness ==
    /\ outcome = "killed"
    /\ at = "w_replace"
    /\ files[TmpPath(tmp)].data = payload
    /\ wpre.ex
    /\ files[PRIMARY] = wpre
    /\ wpre # File(payload)

\* C2, as claimed: once the atomic writer has raised, the temp file is gone,
\* the failure is with the caller and the target is unchanged; once it has
\* returned or raised, no temp file of that call remains.
C2_AsClaimed ==
    /\ wres \in {"raised", "raised, temp file left"} =>
          /\ files[PRIMARY] = wpre
          /\ wctx = "save" => pc = "done" /\ outcome = "OSError"
    /\ wres # "none" /\ tmp # 0 => ~files[TmpPath(tmp)].ex

\* C2, amended: the same, except that the temp file remains when the unlink
\* of the clean-up itself fails with an OSError, which the writer ignores.
C2_TempFileCleanedUp ==
    /\ wres \in {"raised", "raised, temp file left"} =>
          /\ files[PRIMARY] = wpre
          /\ wctx = "save" => pc = "done" /\ outcome = "OSError"
    /\ wres \in {"raised", "returned"} /\ tmp # 0 => ~files[TmpPath(tmp)].ex

C2_Witness ==
    /\ wres = "raised"
    /\ pc = "done"
    /\ at = "w_cleanup"
    /\ outcome = "OSError"
    /\ tmp # 0
    /\ ~files[TmpPath(tmp)].ex
    /\ wpre.ex

\* C3: after n successful saves from an empty directory the primary holds the
\* n-th content and bak<i> the (n-i)-th, or does not exist when n-i < 1; no
\* backup above generation MAX_BACKUPS ever exists.
C3_Rotation ==
    /\ \A g \in BackupGens : g > MAX_BACKUPS => ~files[backup_path(g)].ex
    /\ tool = "commit_your_day" /\ clean /\ pc \in {"idle", "done"} =>
          LET n == Len(hist)
          IN  /\ IF n >= 1 THEN files[PRIMARY] = File(hist[n]) ELSE ~files[PRIMARY].ex
              /\ \A i \in Generations :
                    IF n - i >= 1 THEN files[backup_path(i)] = File(hist[n - i])
                    ELSE ~files[backup_path(i)].ex

C3_Witness ==
    /\ tool = "commit_your_day"
    /\ clean
    /\ pc = "done"
    /\ Len(hist) = MAX_BACKUPS + 2
    /\ files[backup_path(MAX_BACKUPS)] = File(hist[2])
    /\ hist[1] # hist[2]

\* C4: at every step inside _rotate_backups, and after a kill there, the
\* primary is as before the save and every content that backup generations
\* 1..MAX_BACKUPS-1 held before is still held, complete, by some backup.
C4_RotationKillSafe ==
    tool = "commit_your_day" /\ (InRotation(pc) \/ (outcome = "killed" /\ InRotation(at))) =>
        /\ files[PRIMARY] = wpre
        /\ \A g \in 1..(MAX_BACKUPS - 1) :
              pre[backup_path(g)].ex =>
                 \E h \in Generations : files[backup_path(h)] = pre[backup_path(g)]

C4_Witness ==
    /\ outcome = "killed"
    /\ at = "bak_data"
    /\ pre[backup_path(1)].ex
    /\ pre[backup_path(2)].ex
    /\ pre[backup_path(1)] # pre[backup_path(2)]
    /\ Len(files[backup_path(1)].data) < Len(files[PRIMARY].data)
    /\ files[backup_path(2)] = pre[backup_path(1)]
    /\ files[backup_path(3)] = pre[backup_path(2)]

\* C5: _load_store never raises, whatever the primary and the backups hold.
C5_LoadNeverRaises == ~(tool = "commit_your_day" /\ LoadRaised)

\* C6: when the primary exists but is unparsable or has the wrong root type,
\* _load_store returns the contents of the first backup generation that
\* parses as an object, and the primary alone then loads to the same store.
C6_FallbackAndPromotion ==
    /\ tool = "commit_your_day"
    /\ cmd # "none"
    /\ Unparsable(pre[PRIMARY])
    /\ \E g \in Generations : ParsesAsObject(pre[backup_path(g)])
    => /\ ~LoadRaised
       /\ pc = "loaded" =>
             /\ ret = CommitStore_from_dict(
                         json_loads(pre[backup_path(FirstGoodBackup(pre))].data).v)
             /\ Examine(files[PRIMARY]).act = "store"
             /\ Built(files[PRIMARY]) = ret

\* C7, as claimed: if the primary does not exist, load returns a fresh empty
\* store, whichever backups exist.
C7_AsClaimed ==
    tool = "commit_your_day" /\ pc = "loaded" /\ ~pre[PRIMARY].ex => IsFreshStore(ret)

\* C7, amended: if neither the primary nor any backup generation exists, load
\* returns a fresh empty store: current schema version, creation timestamp of
\* this invocation, no records.
C7_FreshStoreWhenNothingExists ==
    /\ tool = "commit_your_day"
    /\ cmd # "none"
    /\ ~pre[PRIMARY].ex
    /\ \A g \in Generations : ~pre[backup_path(g)].ex
    => /\ ~LoadRaised
       /\ pc = "loaded" => IsFreshStore(ret)

C7_Witness ==
    /\ tool = "commit_your_day"
    /\ pc = "loaded"
    /\ now >= 2
    /\ ~pre[PRIMARY].ex
    /\ \A g \in Generations : ~pre[backup_path(g)].ex
    /\ ret = new_store(now)

\* C8: when the primary is present but invalid and every backup is missing or
\* invalid, _load_store keeps the primary's content under .corrupted and
\* returns a fresh empty store.
C8_CorruptedPreserved ==
    /\ tool = "commit_your_day"
    /\ cmd # "none"
    /\ pre[PRIMARY].ex
    /\ ~ParsesAsObject(pre[PRIMARY])
    /\ \A g \in Generations : ~ParsesAsObject(pre[backup_path(g)])
    => /\ ~LoadRaised
       /\ pc = "loaded" =>
             /\ IsFreshStore(ret)
             /\ files[CORRUPTED].ex
             /\ files[CORRUPTED].data = pre[PRIMARY].data

\* C9: a load that follows a completed save returns the saved store: same
\* records, same order, same value of every field.
C9_RoundTrip ==
    lastSave # NoStore =>
        /\ ~LoadRaised
        /\ pc = "loaded" => ret = lastSave

C9_Witness ==
    /\ tool = "commit_your_day"
    /\ pc = "loaded"
    /\ lastSave # NoStore
    /\ ret = lastSave
    /\ Len(ret.commits) >= 2
    /\ \E i \in 1..Len(ret.commits) : ret.commits[i].tags # <<>> /\ ret.commits[i].scope # "life"

\* C10: when an add command has succeeded on a store that was in order, the
\* persisted store holds the records it held before, unchanged and in the
\* same order, followed by exactly the new record.
C10_AppendOnly ==
    tool \in {"commit_your_day", "pebbles"} /\ pc = "done" /\ cmd = "add"
    /\ outcome = "returned" /\ Healthy(pre) =>
        /\ Healthy(files)
        /\ Records(files) = Records(pre) \o <<newrec>>

C10_Witness ==
    /\ tool \in {"commit_your_day", "pebbles"}
    /\ pc = "done"
    /\ cmd = "add"
    /\ outcome = "returned"
    /\ Healthy(pre)
    /\ Len(Records(pre)) >= 2
    /\ Records(files) = Records(pre) \o <<newrec>>

-----------------------------------------------------------------------------
(* Properties of the input handling *)

\* r is v brought into lo..hi
ClampedTo(lo, hi, v, r) ==
    /\ v < lo => r = lo
    /\ v > hi => r = hi
    /\ lo <= v /\ v <= hi => r = v

InRange(lo, hi, v) == lo <= v /\ v <= hi

\* the record the primary file holds last
StoredLast == Records(files)[Len(Records(files))]

\* an add of commit_your_day has completed and its record is in the primary file
AddStored(path) ==
    /\ tool = "commit_your_day"
    /\ pc = "done"
    /\ cmd = "add"
    /\ arg.k = path
    /\ outcome = "returned"

\* what was typed at the energy and mood prompts of a completed interactive add
TypedEnergy == ParseInt(PyStrip(arg.script[Len(arg.script) - 1]))
TypedMood == ParseInt(PyStrip(arg.script[Len(arg.script)]))

\* the quick commit got a message, and a mood or an energy out of range
OutOfRangeFlags ==
    /\ tool = "commit_your_day"
    /\ cmd # "none"
    /\ arg.k = "quick"
    /\ PyStrip(arg.args.message) # ""
    /\ \/ ~InRange(MOOD_MIN, MOOD_MAX, arg.args.mood)
       \/ ~InRange(ENERGY_MIN, ENERGY_MAX, arg.args.energy)

\* C11, as claimed: on the quick path and at the prompts alike, an integer
\* mood or energy however far out of range yields a stored record holding
\* the value clamped into [MOOD_MIN, MOOD_MAX] or [ENERGY_MIN, ENERGY_MAX].
C11_AsClaimed ==
    /\ AddStored("interactive") =>
          /\ TypedMood.err = "none" =>
                ClampedTo(MOOD_MIN, MOOD_MAX, TypedMood.n, StoredLast.mood_score)
          /\ TypedEnergy.err = "none" =>
                ClampedTo(ENERGY_MIN, ENERGY_MAX, TypedEnergy.n, StoredLast.energy_score)
    /\ OutOfRangeFlags /\ pc = "done" /\ at = "idle" => outcome = "returned"
    /\ AddStored("quick") =>
          /\ ClampedTo(MOOD_MIN, MOOD_MAX, arg.args.mood, StoredLast.mood_score)
          /\ ClampedTo(ENERGY_MIN, ENERGY_MAX, arg.args.energy, StoredLast.energy_score)

\* C11, amended: an integer typed at the energy or mood prompt is stored
\* clamped into its range, and text that is no integer gives the default;
\* on the quick path a --mood or --energy out of range ends the command with
\* exit status 1 and nothing stored, and a value in range is stored as given.
C11_Clamping ==
    /\ AddStored("interactive") =>
          /\ IF TypedMood.err = "none"
             THEN ClampedTo(MOOD_MIN, MOOD_MAX, TypedMood.n, StoredLast.mood_score)
             ELSE StoredLast.mood_score = MOOD_DEFAULT
          /\ IF TypedEnergy.err = "none"
             THEN ClampedTo(ENERGY_MIN, ENERGY_MAX, TypedEnergy.n, StoredLast.energy_score)
             ELSE StoredLast.energy_score = ENERGY_DEFAULT
    /\ OutOfRangeFlags => pc = "done" /\ outcome = "exit1" /\ files = pre
    /\ AddStored("quick") =>
          /\ StoredLast.mood_score = arg.args.mood
          /\ StoredLast.energy_score = arg.args.energy

C11_Witness ==
    /\ AddStored("interactive")
    /\ TypedMood.err = "none"
    /\ TypedMood.n > MOOD_MAX
    /\ StoredLast.mood_score = MOOD_MAX
    /\ StoredLast = newrec

\* C12: every record of the store a load returned, and every record of a
\* store the tool is writing, has its mood in [MOOD_MIN, MOOD_MAX] and its
\* energy in [ENERGY_MIN, ENERGY_MAX], whatever the files held.
C12_RangeInvariant ==
    tool = "commit_your_day" =>
        \A s \in {ret, store} \ {NoStore} :
            \A i \in 1..Len(s.commits) :
                /\ InRange(MOOD_MIN, MOOD_MAX, s.commits[i].mood_score)
                /\ InRange(ENERGY_MIN, ENERGY_MAX, s.commits[i].energy_score)

\* the command was given invalid input: an empty or blank -m, a --mood or
\* --energy out of range; an empty text for pebbles add
InvalidInput ==
    \/ /\ tool = "commit_your_day"
       /\ cmd # "none"
       /\ arg.k \in {"quick", "interactive"}
       /\ arg.args.message # None
       /\ QuickArgsInvalid(arg.args)
    \/ /\ tool = "pebbles"
       /\ cmd = "add"
       /\ arg.text = ""

\* C13: a command given invalid input ends with exit status 1 and the
\* primary file and its backups are neither created nor modified.
C13_ValidationFailure ==
    InvalidInput => pc = "done" /\ outcome = "exit1" /\ files = pre

\* the command has a prompt that is interrupted (EOF, Ctrl-C) when reached
InterruptedAtPrompt ==
    \/ /\ tool = "commit_your_day"
       /\ cmd # "none"
       /\ arg.k = "interactive"
       /\ interactive(arg.script).end = "exit0"
    \/ /\ tool = "pebbles"
       /\ cmd = "add"
       /\ arg.typed = EOF
    \/ /\ tool = "pebbles"
       /\ cmd = "clear"
       /\ arg.text = EOF

\* the invocation ended where its prompt is
EndedAtPrompt ==
    /\ pc = "done"
    /\ outcome # "killed"
    /\ at = IF tool = "pebbles" /\ cmd = "clear" THEN "loaded" ELSE "idle"

\* C14: no prompt is read after a write to the primary or a backup: while
\* prompts are still ahead the directory is as the command found it, and in
\* a command whose prompt is interrupted the directory stays as it was and
\* the command ends at the prompt with exit status 0 or 1.
C14_InputBeforeWrites ==
    /\ tool = "pebbles" /\ pc \in {"load", "loaded"} => files = pre
    /\ InterruptedAtPrompt =>
          /\ files = pre
          /\ pc \in {"idle", "load", "loaded", "done"}
          /\ EndedAtPrompt => outcome \in {"exit0", "exit1", "returned"}

C14_Witness ==
    /\ tool = "pebbles"
    /\ cmd = "clear"
    /\ arg.text = EOF
    /\ pc = "done"
    /\ at = "loaded"
    /\ outcome = "exit1"
    /\ Len(store.items) >= 2
    /\ files = pre
    /\ pre[PRIMARY].ex

-----------------------------------------------------------------------------
(* Properties of the four journaling tools together *)

\* the records a load of the tool yields from the data file of this directory
Persisted(dir) ==
    IF tool \in {"commit_your_day", "pebbles"} THEN Records(dir)
    ELSE LET l == load_list(tool, dir[PRIMARY])
         IN  IF l.exit = "none" /\ l.v.t = "list" THEN l.v.items ELSE <<>>

IsPrefix(a, b) == Len(a) <= Len(b) /\ SubSeq(b, 1, Len(a)) = a

ConfirmedClear == tool = "pebbles" /\ cmd = "clear" /\ ClearConfirmed(arg.text)

\* C15: whatever an invocation was and however it ended, unless it was a
\* clear that the user confirmed, the records the data file held when it
\* started are still there, unchanged and in order, when it has ended.
C15_NoLossWithoutClear ==
    pc = "done" /\ ~ConfirmedClear => IsPrefix(Persisted(pre), Persisted(files))

InPlainSave(p) == p \in {"s_open", "s_write"}

\* C16: from the start of a save of capsule or memory_jar to the end of the
\* invocation, kill included, the data file holds its complete content from
\* before the save or the complete new content.
C16_PlainSaveAtomic ==
    /\ tool \in {"capsule", "memory_jar"}
    /\ InPlainSave(pc) \/ (pc = "done" /\ InPlainSave(at))
    => \/ files[PRIMARY] = wpre
       \/ files[PRIMARY].ex /\ files[PRIMARY].data = payload

\* the root type the tool's loader expects
RootType(program) == IF program = "commit_your_day" THEN "obj" ELSE "list"

\* the data file can be read as text, but is not JSON or has the wrong root type
Corrupt(program, f) ==
    /\ f.ex
    /\ read_text(f).err = "none"
    /\ \/ json_loads(read_text(f).text).err # "none"
       \/ json_loads(read_text(f).text).v.t # RootType(program)

\* C18: a command that got as far as the load of a corrupt data file, and
\* met no kill and no I/O error, ends with exit status 0.
C18_CorruptionNeverFails ==
    /\ cmd # "none"
    /\ Corrupt(tool, pre[PRIMARY])
    /\ pc = "done"
    /\ at # "idle"
    /\ outcome \notin {"killed", "OSError"}
    => outcome \in {"returned", "exit0"}

\* C17: when _save_store has failed with an I/O error, in the rotation or in
\* the write, the primary and every backup generation hold what they held
\* when the save started (the load before it never touches a backup).
C17_FailedSaveNoPartialState ==
    tool = "commit_your_day" /\ wctx = "save" /\ pc = "done" /\ outcome = "OSError" =>
        /\ files[PRIMARY] = wpre
        /\ \A g \in Generations : files[backup_path(g)] = pre[backup_path(g)]

-----------------------------------------------------------------------------
(* Two invocations at the same time *)

\* the variables of the first and of the second process
Proc(i) == IF turn = i THEN Regs ELSE other

\* the process has come back from its load of the store
HasLoaded(p) == p.ret # NoStore

\* the store is what a load of the primary file f returns, f being a file
\* in order or no file at all
ReadsAs(s, f) ==
    IF tool = "pebbles" THEN s = PebbleStore(load(f).pebbles)
    ELSE IF f.ex THEN s = Built(f)
    ELSE s.version = SCHEMA_VERSION /\ s.commits = <<>>

\* what the primary file has held since the process started: what it held
\* then, and the whole payload of every save completed so far
WholeContents(p) == {p.pre[PRIMARY]} \cup {File(hist[i]) : i \in 1..Len(hist)}

\* C19: a load that runs while another process saves never meets a partly
\* written primary file: it takes no corruption path and does not fail, and
\* the store it returns is the complete content from before the save or the
\* complete new payload.
C19_ReaderSeesWholeFile ==
    \A i \in {1, 2} :
        LET p == Proc(i)
        IN  /\ p.pc \notin {"cc_open", "cc_data"}
            /\ ~(p.pc = "done" /\ p.at = "load")
            /\ HasLoaded(p) => \E f \in WholeContents(p) : ReadsAs(p.ret, f)

\* a read command has loaded the store while the other process, an add, was
\* in the middle of writing its temp file
C19_Witness ==
    /\ cmd = "read"
    /\ pc = "loaded"
    /\ HasLoaded(Regs)
    /\ other.cmd = "add"
    /\ other.pc = "w_write"
    /\ other.tmp # 0
    /\ files[TmpPath(other.tmp)].data # <<>>
    /\ files[PRIMARY].ex

\* the records of a store in memory
StoreRecords(s) == IF tool = "pebbles" THEN s.items ELSE s.commits

\* both processes ran an add that got as far as its save, and both have ended
BothAddsEnded ==
    \A i \in {1, 2} :
        /\ Proc(i).cmd = "add"
        /\ Proc(i).newrec # NoRec
        /\ Proc(i).pc = "done"

\* C20: two adds at the same time both complete without error; the primary
\* file is then the whole payload of the one whose rename came last: what
\* that one loaded and its own record. If it loaded before the rename of the
\* other, the record of the other is not in the file; if after, both are.
C20_ConcurrentWriters ==
    BothAddsEnded =>
        /\ \A i \in {1, 2} : Proc(i).outcome = "returned"
        /\ Len(hist) = 2
        /\ files[PRIMARY] = File(hist[2])
        /\ \A i \in {1, 2} :
              LET later == Proc(i)
                  earlier == Proc(3 - i)
                  seen == StoreRecords(later.ret)
              IN  later.payload = hist[2] /\ earlier.payload = hist[1] =>
                      /\ Records(files) = Append(seen, later.newrec)
                      /\ \/ seen = StoreRecords(earlier.ret)
                         \/ seen = Append(StoreRecords(earlier.ret), earlier.newrec)

-----------------------------------------------------------------------------
(* commit_your_day: streak and aggregates *)

\* every record carries a date as the program writes it
WellDated(commits) == \A i \in DOMAIN commits : strptime(commits[i].commit_date).err = "none"

\* the days of the records
RecordDays(commits) == {strptime(commits[i].commit_date).day : i \in DOMAIN commits}

MostRecent(days) == CHOOSE m \in days : \A d \in days : d <= m

\* the length of the longest run of consecutive days in the set that ends at m
RunEndingAt(days, m) ==
    CHOOSE k \in 1..Cardinality(days) :
        /\ \A j \in 0..(k - 1) : (m - j) \in days
        /\ (m - k) \notin days

\* C21: for records that all carry a date, the streak is 0 for an empty list
\* and when the most recent record date is older than yesterday; when the
\* most recent record date is today or yesterday it is the length of the run
\* of consecutive days, among the distinct record dates, that ends there;
\* and --stats shows that number.
C21_Streak ==
    LET commits == store.commits
        days == RecordDays(commits)
        streak == compute_streak(commits, now)
    IN  /\ out.k = "stats" => out.streak = streak
        /\ commits = <<>> => streak = 0
        /\ commits # <<>> /\ WellDated(commits) =>
              /\ MostRecent(days) < now - 1 => streak = 0
              /\ MostRecent(days) \in {now - 1, now} =>
                     streak = RunEndingAt(days, MostRecent(days))

\* --stats has run on records dated today, yesterday and three days ago,
\* and shows a streak of 2
C21_Witness ==
    /\ pc = "done"
    /\ out.k = "stats"
    /\ WellDated(store.commits)
    /\ RecordDays(store.commits) = {now, now - 1, now - 3}
    /\ out.streak = 2

\* C22: the aggregates of an empty list are neutral - streak 0, averages
\* 0.0, no tag counts, no tag-mood correlation - and --stats and --summary,
\* on any store, end without an exception.
C22_EmptyIsNeutral ==
    /\ compute_streak(<<>>, now) = 0
    /\ week_stats(<<>>) = [count |-> 0, mood_avg |-> Zero, energy_avg |-> Zero]
    /\ compute_tag_counts(<<>>) = <<>>
    /\ compute_tag_mood_correlation(<<>>) = <<>>
    /\ pc = "done" /\ cmd \in {"stats", "summary"} => outcome = "returned"

-----------------------------------------------------------------------------
(* buddy *)

\* the action is one of the entries of the mood in _MOOD_WEIGHTS, and its
\* weight there is positive
Listed(mood, action) ==
    \E i \in DOMAIN MOOD_WEIGHTS(mood) :
        /\ MOOD_WEIGHTS(mood)[i][1] = action
        /\ MOOD_WEIGHTS(mood)[i][2] > 0

\* C23: whenever choose_action has been called for the pet's mood, the action
\* it returned is one that _MOOD_WEIGHTS lists for that mood with a positive
\* weight; an action the mood does not list is never chosen.
C23_ChosenActionIsListed ==
    pet.chosen => Listed(pet.mood, pet.current_action)

\* a sleepy pet has been given the action doze by choose_action
C23_Witness ==
    /\ pet.chosen
    /\ pet.mood = "sleepy"
    /\ pet.current_action = "doze"

\* every Ctrl+C of the run was pressed during the greeting or the animation
DuringGreetingOrAnimation ==
    \A i \in DOMAIN pet.sigint :
        pet.sigint[i] \in {"greeting", "pause", "animation", "loop"}

\* C25: once the cursor was hidden, the run of buddy ends, whether the
\* duration expires or Ctrl+C is pressed during the greeting or the
\* animation, and when it has ended the cursor is shown again and the goodbye
\* is printed; the deadline is the clock at the start of the loop plus the
\* duration, and with the clock at or past it the loop renders no more frame.
C25_CursorRestored ==
    /\ [](pet.pc = "loop" => pet.deadline = pet.started + pet.duration * TicksPerSecond)
    /\ [][pet.pc = "loop" /\ pet.clock >= pet.deadline => pet'.pc = "finally"]_vars
    /\ [](pet.pc = "done" /\ pet.hid /\ DuringGreetingOrAnimation
            => pet.cursor = "shown" /\ pet.goodbye)
    /\ (pet.hid /\ DuringGreetingOrAnimation) ~>
           (pet.pc = "done" /\ (DuringGreetingOrAnimation
                                   => pet.cursor = "shown" /\ pet.goodbye))

\* Ctrl+C was pressed while the animation ran, and the run has ended with the
\* cursor shown and the goodbye printed
C25_Witness ==
    /\ pet.pc = "done"
    /\ pet.sigint = << "loop" >>
    /\ pet.art = "goodbye"
    /\ pet.cursor = "shown"
    /\ pet.goodbye

\* the action chosen last and the one held before it are both other than idle
BackToBack ==
    /\ pet.chosen
    /\ pet.last \notin {"idle", "none"}
    /\ pet.current_action # "idle"

\* C26: when an action other than idle follows an action other than idle, the
\* idle pose was shown in between, at the least as a frame of the earlier
\* action; two such actions are never displayed back to back with no idle
\* frame between them.
C26_RestBetweenActions ==
    BackToBack => pet.rested

-----------------------------------------------------------------------------
(* toybox and pocket_poet *)

\* the second of two runs with the same arguments has ended
RanTwice == toy.run = 2 /\ toy.pc = "done"

\* C24: when toybox is run twice with the same --seed, --category and
\* --difficulty, or pocket_poet twice with the same --seed and --lines, the
\* second run prints what the first one printed and ends as it ended; and
\* the generator every draw of a run is taken from is the one seeded with
\* the --seed.
C24_SeedDeterminism ==
    toy.args.seed # << >> =>
        /\ RanTwice => /\ toy.result = toy.first.result
                       /\ toy.exit = toy.first.exit
                       /\ toy.rng = toy.first.rng
        /\ toy.pc \in {"select", "format", "generate"} \/ toy.rng.pos > 0
               => toy.rng.by = "seed" /\ toy.rng.n = toy.args.seed[1]

\* toybox has twice drawn a category, a medium constraint and an
\* encouragement with seed 1, and has printed the same both times
C24_Witness ==
    /\ RanTwice
    /\ toy.program = "toybox"
    /\ toy.args = [category |-> None, difficulty |-> "medium", seed |-> << 1 >>,
                   lines |-> None]
    /\ toy.result # << >>
    /\ toy.result = toy.first.result
    /\ toy.rng.pos >= 3

Range(seq) == {seq[i] : i \in DOMAIN seq}

\* C27: for every category and every difficulty filter, given or not, the
\* pool select_constraint draws from holds at least one constraint; whenever
\* select_constraint has run it has raised nothing, the category it chose is
\* the one given when one was given, and the constraint it returned is in
\* that category's pool and has the difficulty asked for when one was given.
C27_SelectionNeverFails ==
    /\ \A c \in VALID_CATEGORIES, d \in {None} \cup VALID_DIFFICULTIES :
           Len(Filter(CONSTRAINT_POOLS(c), d)) > 0
    /\ toy.program = "toybox" /\ toy.chosen_category # None =>
           /\ toy.err = "none"
           /\ Len(toy.pool) > 0
           /\ toy.chosen_category \in VALID_CATEGORIES
           /\ toy.args.category # None => toy.chosen_category = toy.args.category
           /\ toy.constraint # << >>
           /\ toy.constraint[1] \in Range(CONSTRAINT_POOLS(toy.chosen_category))
           /\ toy.args.difficulty # None =>
                  toy.constraint[1].difficulty = toy.args.difficulty

\* no category was given and a strange constraint was asked for:
\* select_constraint has drawn a category and returned a strange constraint
C27_Witness ==
    /\ toy.program = "toybox"
    /\ toy.pc = "format"
    /\ toy.args.category = None
    /\ toy.args.difficulty = "strange"
    /\ toy.chosen_category \in VALID_CATEGORIES
    /\ toy.constraint # << >>
    /\ toy.constraint[1].difficulty = "strange"

-----------------------------------------------------------------------------
(* capsule: the listing *)

\* the invocation whose clock stands in a created_at written by add_message
WrittenAt(created_at) ==
    CHOOSE clock \in 0..(MaxCmds + MaxCmdsHostile + 1) : NowUtcIso(clock) = created_at

\* the messages in the capsule
Buried == load_list("capsule", files[PRIMARY]).v.items

\* capsule list has printed the capsule that add commands alone have built
ListedTheCapsule ==
    /\ tool = "capsule"
    /\ clean
    /\ cmd = "list"
    /\ outcome = "returned"
    /\ out.k = "listing"

\* C28: when capsule list has printed a capsule built by add commands alone,
\* every message of the capsule stands in the listing exactly once, and a
\* message stands above every message that was added before it.
C28_MostRecentFirst ==
    ListedTheCapsule =>
        /\ \A i \in DOMAIN Buried :
               Cardinality({j \in DOMAIN out.lines :
                               /\ out.lines[j].message = Buried[i].f.message.s
                               /\ out.lines[j].created_at = Buried[i].f.created_at.s}) = 1
        /\ Len(out.lines) = Len(Buried)
        /\ \A i, j \in DOMAIN out.lines :
               i < j => WrittenAt(out.lines[i].created_at)
                           > WrittenAt(out.lines[j].created_at)

-----------------------------------------------------------------------------
(* The commands that only read *)

\* the invocation runs a command that only reads: --log, --random, --summary
\* or --stats of commit_your_day, shake, list or stats of pebbles, open, list
\* or oldest of capsule, random, list, today, search or count of memory_jar
ReadOnly ==
    /\ pc # "idle"
    /\ cmd \in {"read", "list", "count", "open", "oldest", "random", "today", "search"}

\* the primary file of the directory loads
PrimaryLoads(dir) ==
    tool = "commit_your_day" => Examine(dir[PRIMARY]).act = "store"

BackupPaths == {backup_path(g) : g \in 1..MAX_BACKUPS}

\* C29: while a command that only reads runs, no backup changes; when the
\* primary file loaded at its start, nothing in the directory changes; and
\* when something does change, the program is commit_your_day, the primary
\* file did not load, and what changed is the primary file, by the rewrite
\* from a backup and its temp file, or the .corrupted copy.
C29_ReadOnlyFrame ==
    ReadOnly =>
        /\ \A b \in BackupPaths : files[b] = pre[b]
        /\ PrimaryLoads(pre) => files = pre
        /\ files # pre =>
               /\ tool = "commit_your_day"
               /\ Examine(pre[PRIMARY]).act # "store"
               /\ \A i \in FileIdx :
                      files[i] # pre[i] =>
                          i \in {PRIMARY, CORRUPTED} \cup {TmpPath(t) : t \in TmpIdx}
               /\ files[PRIMARY] # pre[PRIMARY] => wctx = "promote"

\* commit_your_day has run a command that only reads on a primary file that
\* loads and backups, and has returned
C29_Witness ==
    /\ tool = "commit_your_day"
    /\ cmd = "read"
    /\ outcome = "returned"
    /\ pre[PRIMARY].ex
    /\ Examine(pre[PRIMARY]).act = "store"
    /\ \A b \in BackupPaths : pre[b].ex
    /\ files = pre

-----------------------------------------------------------------------------
(* commit_your_day: what the backups hold *)

\* the file holds, whole, what the primary file or a backup of the directory holds
WholeCopyOf(f, dir) ==
    \E i \in {PRIMARY} \cup BackupPaths : dir[i].ex /\ f.data = dir[i].data

\* C30: when an invocation of commit_your_day has ended, killed or not, every
\* backup that exists holds the whole of what the primary file or a backup
\* held when the invocation started (a backup only ever receives the content
\* of the primary file or of the generation before it), never a part of it.
C30_BackupsComplete ==
    tool = "commit_your_day" /\ pc = "done" =>
        \A b \in BackupPaths : files[b].ex => WholeCopyOf(files[b], pre)

====
